---- MODULE Spec2Model ----
(***************************************************************************)
(* A model of the Amazon review crawler (src/src/crawler.py, auth.py,      *)
(* utils.py, data.py, config.py).                                          *)
(*                                                                         *)
(* The browser and the site are the environment: every navigation, lookup  *)
(* and click is a nondeterministic choice over the outcomes selenium can   *)
(* produce (an address and a page, an element, NoSuchElementException, or  *)
(* any other WebDriverException).                                          *)
(*                                                                         *)
(* Text is a sequence of characters, an address a sequence of path         *)
(* segments, a page source a set of phrases: strip(), split(), lower() and *)
(* the substring tests of the code are computed on them.                   *)
(*                                                                         *)
(* Specifications:                                                         *)
(*   Spec         crawl_amazon, from the search to the returned result     *)
(*   SpecScrape   scrape_reviews called for one product address            *)
(*   SpecAuth     the operations of AuthManager on the driver              *)
(*   SpecExtract  extract_product_data / extract_review_data on an element *)
(*   SpecTwice    the same extraction called twice on a fixed snapshot     *)
(*   SpecLife     the lifetime of the crawler and of its driver            *)
(*   SpecMain     one run of main, with an operator interrupt              *)
(*   SpecSave     save_data called on its own                              *)
(*   SpecSearch   search_products called on a page of known containers     *)
(***************************************************************************)
EXTENDS Naturals, Integers, Sequences, FiniteSets, TLC

(***************************************************************************)
(* Bounds of the model.                                                    *)
(***************************************************************************)
\* the largest max_pages scrape_reviews is called with in SpecScrape
MaxPages == 2
\* the most review elements one rendered page holds
MaxElems == 1
\* the most operations one lifetime of the crawler runs in SpecLife
MaxOps == 3
\* the most products the search of SpecMain returns
MaxMainProducts == 2
\* the most result containers the search page renders
MaxContainers == 4
\* the most descendants (and the most anchors) a scan of one element returns
MaxScan == 2
MaxFinishProducts == 2
MaxFinishReviews == 2

(***************************************************************************)
(* Program constants (src/src/config.py).                                  *)
(***************************************************************************)
DefaultTopCount == 3
DefaultMaxPages == 2

NA == "N/A"
None == "None"

\* SELECTORS: the chains the model walks, as declared.
SELECTORS ==
  [ product_title  |-> << "h2 a span", "h2 span", ".s-color-base", "a[href*=/dp/] span" >>,
    product_url    |-> << "h2 a", "a[href*=/dp/]", "a[href*=/gp/product/]", ".s-size-mini a",
                          "a[data-hook=product-link]", "a[href*=amazon.com]", "a[href*=/product/]",
                          ".s-link-style a", "a[href*=amazon.com/dp/]",
                          "a[href*=amazon.com/gp/product/]" >>,
    product_price  |-> << ".a-price-whole", ".a-price .a-offscreen", ".a-price-range" >>,
    product_rating |-> << ".a-icon-alt", "[data-hook=rating-out-of-text]", ".a-icon-star-small",
                          ".a-icon-star", ".a-star-mini", ".a-star-small",
                          ".a-icon-star-small .a-icon-alt", ".a-icon-star .a-icon-alt",
                          ".a-star-mini .a-icon-alt", ".a-star-small .a-icon-alt",
                          "[aria-label*=stars]", "[aria-label*=star]",
                          ".a-icon-star-small[aria-label]", ".a-icon-star[aria-label]",
                          ".a-star-mini[aria-label]", ".a-star-small[aria-label]" >>,
    review_elements |-> << "[data-hook=review]", ".review", "[data-hook=review-body]",
                           ".a-section.review", ".cr-original-review-item" >>,
    review_text    |-> << "[data-hook=review-body] span" >>,
    review_date    |-> << "[data-hook=review-date]" >>,
    reviewer_name  |-> << "[data-hook=review-author]", ".a-profile-name",
                          ".review-byline .author", ".cr-original-review-item .a-profile-name",
                          "[data-hook=review-author] .a-profile-name" >>,
    review_title   |-> << "[data-hook=review-title] span", "[data-hook=review-title]",
                          ".review-title", ".cr-original-review-item .review-title",
                          "a[data-hook=review-title]", "[data-hook=review-title] a",
                          ".a-size-base.review-title", ".review-title-text",
                          "h3[data-hook=review-title]", ".a-text-bold.review-title" >>,
    next_page      |-> << ".a-pagination .a-last a", ".a-pagination .a-next",
                          "[aria-label=Next Page]", ".a-pagination .a-last",
                          "a[aria-label=Next Page]" >> ]

\* the four selectors apply_star_filter builds for one rating
StarSelectors ==
  << "[data-hook=review-star-filter-N]", "a[href*=filterByStar=N_star]",
     "button[data-hook=review-star-filter-N]", "[aria-label*=N star]" >>

LOGIN_INDICATORS == { "hello,", "your account", "account & lists", "orders", "prime" }

(***************************************************************************)
(* Addresses: sequences of path segments.                                  *)
(***************************************************************************)
AMAZON_BASE_URL == << "https://www.amazon.com" >>
AMAZON_LOGIN_URL == AMAZON_BASE_URL \o << "ap", "signin" >>

\* str.lower() on one segment or phrase
LowerTok(t) ==
  CASE t = "SignIn" -> "signin"
    [] t = "Hello," -> "hello,"
    [] t = "Orders" -> "orders"
    [] OTHER -> t

Lower(url) == [i \in 1..Len(url) |-> LowerTok(url[i])]

\* `marker in url` for a one-segment marker
Contains(url, marker) == \E i \in 1..Len(url) : url[i] = marker

\* `"ap/signin" in url`: two segments in a row
ContainsPair(url, a, b) == \E i \in 1..(Len(url) - 1) : url[i] = a /\ url[i + 1] = b

(***************************************************************************)
(* Text: a sequence of characters; an attribute that is absent is None.    *)
(***************************************************************************)
NAText == << "N", "/", "A" >>
NoAttr == << None >>

IsSpace(c) == c \in { " ", "\t", "\n" }
IsDigit(c) == c \in { "0", "1", "2", "3", "4", "5", "6", "7", "8", "9" }

\* str.strip()
RECURSIVE LStrip(_)
LStrip(t) ==
  IF t = << >> THEN << >>
  ELSE IF IsSpace(Head(t)) THEN LStrip(Tail(t))
  ELSE t

RECURSIVE RStrip(_)
RStrip(t) ==
  IF t = << >> THEN << >>
  ELSE IF IsSpace(t[Len(t)]) THEN RStrip(SubSeq(t, 1, Len(t) - 1))
  ELSE t

Strip(t) == RStrip(LStrip(t))

\* str.split(): the first whitespace-separated token, << >> when there is none
\* (then `split()[0]` raises IndexError)
RECURSIVE TakeToken(_)
TakeToken(t) ==
  IF t = << >> THEN << >>
  ELSE IF IsSpace(Head(t)) THEN << >>
  ELSE << Head(t) >> \o TakeToken(Tail(t))

FirstToken(t) == TakeToken(LStrip(t))

\* any(char.isdigit() for char in text)
AnyDigit(t) == \E i \in 1..Len(t) : IsDigit(t[i])

\* the truth value python gives an attribute: None and "" are false
Truthy(a) == a # NoAttr /\ a # << >>


(***************************************************************************)
(* State.                                                                  *)
(***************************************************************************)
VARIABLES
  \* --- crawl_amazon (crawler.py 311-376)
  pc,            \* the position of the running operation
  driver,        \* self.driver: "none", "open" or "closed"
  top_count, max_pages, star_filter,   \* the arguments of the crawl
  catalog,       \* the site: the product records its result containers can yield
  site,          \* the site: how many review elements a page can yield (elements)
                 \* and the rating texts of an unfiltered listing (stars)
  products,      \* the product records search_products returned
  pidx,          \* the 1-based index of the product loop
  all_reviews,   \* crawl_amazon's all_reviews
  organized_data,  \* crawl_amazon's organized_data, << >> before line 355
  out_files,     \* the formats of the output files written so far
  result,        \* what crawl_amazon returned, None before
  \* --- scrape_reviews (crawler.py 149-258)
  product_url, asin, vidx, success, reviews, sidx,
  ret,           \* what scrape_reviews returned, None before
  raised,        \* whether the outer except of scrape_reviews caught an exception
  \* --- _scrape_review_pages (crawler.py 260-309)
  page, walk_reviews,
  \* --- the reviews listing the driver shows: the rating filter applied (0: none)
  \*     and the page of it
  site_listing, site_page,
  \* --- observations of the current scrape_reviews call
  sessLog,       \* the outcome of the session check and of the recovery after it
  lastNav,       \* the variant navigated to last (0: none yet)
  lastLanding,   \* where that navigation landed: "reviews", "signin", "other", "raise"
  navsThis,      \* the navigations made to variant vidx
  recsThis,      \* the session recoveries made for variant vidx
  walkLog,       \* one entry per finished walk: the rating, the filter's result, the count
  curFilter,     \* what apply_star_filter returned before the running walk
  pagesScraped, clicks, lookups,
  \* --- observations of the crawl: one entry per product the loop has left
  crawlLog,
  \* --- AuthManager on the driver (auth.py)
  drv_url, drv_page, jar, cookie_file,
  au_op, au_ret, au_calls,
  \* --- DataExtractor on one element (utils.py 23-243)
  ex_kind,       \* "product" or "review": which record is being built
  ex_rec,        \* the dict built so far
  ex_field,      \* the key whose extractor is running
  ex_i,          \* the 1-based position in that extractor's selector loop
  ex_state,      \* "running", "returned" (the extractor has), "built", "raised"
  ex_val,        \* what the extractor returned
  ex_src,        \* the branch that returned it
  ex_allMiss,    \* whether every lookup of this extractor so far found no element
  ex_seen        \* the addresses of the anchors the scan of _extract_product_url read

crawlVars == << pc, driver, catalog, site, top_count, max_pages, star_filter, products, pidx,
                all_reviews, organized_data, out_files, result, crawlLog >>
scrapeVars == << product_url, asin, vidx, success, reviews, sidx, ret, raised,
                 sessLog, lastNav, lastLanding, navsThis, recsThis, walkLog,
                 curFilter >>
walkVars == << page, walk_reviews, site_listing, site_page, pagesScraped, clicks, lookups >>
authVars == << drv_url, drv_page, jar, cookie_file, au_op, au_ret, au_calls >>
extractVars == << ex_kind, ex_rec, ex_field, ex_i, ex_state, ex_val, ex_src, ex_allMiss,
                  ex_seen >>
vars == << crawlVars, scrapeVars, walkVars, authVars, extractVars >>

(***************************************************************************)
(* AuthManager (src/src/auth.py).                                          *)
(***************************************************************************)
\* what the site can answer a navigation with
Addresses ==
  { AMAZON_BASE_URL,
    AMAZON_LOGIN_URL,
    AMAZON_BASE_URL \o << "ap", "SignIn" >> }

PageSources == { {}, { "Hello," }, { "Orders", "Sign in" }, { "Sign in" } }

CookieNames == { "session-id", "x-main" }

\* page_source.lower()
LowerPage(src) == { LowerTok(t) : t \in src }

\* a faulty _is_logged_in, in which either condition suffices
IsLoggedInOr(page_source, current_url) ==
  LET is_logged_in == \E indicator \in LOGIN_INDICATORS : indicator \in LowerPage(page_source)
      url == Lower(current_url)
      not_on_signin == ~Contains(url, "signin") /\ ~ContainsPair(url, "ap", "signin")
  IN  is_logged_in \/ not_on_signin

\* a faulty _is_logged_in, which looks at the address only
IsLoggedInByAddress(page_source, current_url) ==
  LET url == Lower(current_url)
  IN  ~Contains(url, "signin") /\ ~ContainsPair(url, "ap", "signin")

\* _is_logged_in, on the page source and the address the driver reports
IsLoggedIn(page_source, current_url) ==
  LET is_logged_in == \E indicator \in LOGIN_INDICATORS : indicator \in LowerPage(page_source)
      url == Lower(current_url)
      not_on_signin == ~Contains(url, "signin") /\ ~ContainsPair(url, "ap", "signin")
  IN  is_logged_in /\ not_on_signin

\* _is_logged_in with its except: reading the driver may raise, which yields False
IsLoggedInTry(read, page_source, current_url) ==
  IF read = "raise" THEN FALSE ELSE IsLoggedIn(page_source, current_url)

ReadOutcomes == { "ok", "raise" }
GetOutcomes == { "ok", "raise" }
\* _save_cookies: written; get_cookies or open raised (file untouched); dump raised
SaveOutcomes == { "saved", "untouched", "truncated" }

NoFile == [state |-> "absent", cookies |-> {}]
CorruptFile == [state |-> "corrupt", cookies |-> {}]
ValidFile(cs) == [state |-> "valid", cookies |-> cs]
CookieFiles == { NoFile, CorruptFile } \cup { ValidFile(cs) : cs \in SUBSET CookieNames }

\* check_session_status: get the home page, then _is_logged_in
CheckSessionStatus ==
  /\ au_op' = "check_session_status"
  /\ \E get \in GetOutcomes, url \in Addresses, src \in PageSources, read \in ReadOutcomes :
       IF get = "raise"
       THEN /\ au_ret' = FALSE
            /\ au_calls' = << "check_session_status" >>
            /\ UNCHANGED << drv_url, drv_page >>
       ELSE /\ drv_url' = url
            /\ drv_page' = src
            /\ au_ret' = IsLoggedInTry(read, src, url)
            /\ au_calls' = << "check_session_status", "_is_logged_in" >>
  /\ UNCHANGED << jar, cookie_file >>
  /\ UNCHANGED << crawlVars, scrapeVars, walkVars, extractVars >>

\* load_cookies (auth.py 54-105), given what the environment answers: nav is how far
\* the two navigations got, injected the cookies add_cookie accepted (a cookie that
\* raises WebDriverException is skipped), addError whether add_cookie raised anything
\* else (which ends the loop), and the address and page the driver then shows
NavOutcomes == { "ok", "get_raise", "refresh_raise" }

\* a faulty load_cookies, which takes a file it cannot parse for an empty cookie list
LoadCookiesEffectUnparsed(nav, injected, addError, url, src, read) ==
  IF cookie_file.state = "absent" \/ nav = "get_raise"
  THEN [ret |-> FALSE, url |-> drv_url, page |-> drv_page, jar |-> jar,
        calls |-> << "load_cookies" >>]
  ELSE IF addError \/ nav = "refresh_raise"
  THEN [ret |-> FALSE, url |-> url, page |-> src,
        jar |-> jar \cup (cookie_file.cookies \cap injected),
        calls |-> << "load_cookies" >>]
  ELSE [ret |-> IsLoggedInTry(read, src, url), url |-> url, page |-> src,
        jar |-> jar \cup (cookie_file.cookies \cap injected),
        calls |-> << "load_cookies", "_is_logged_in" >>]

LoadCookiesEffect(nav, injected, addError, url, src, read) ==
  IF cookie_file.state = "absent"
  THEN [ret |-> FALSE, url |-> drv_url, page |-> drv_page, jar |-> jar,
        calls |-> << "load_cookies" >>]
  ELSE IF cookie_file.state = "corrupt" \/ nav = "get_raise"
  THEN [ret |-> FALSE, url |-> drv_url, page |-> drv_page, jar |-> jar,
        calls |-> << "load_cookies" >>]
  ELSE IF addError \/ nav = "refresh_raise"
  THEN [ret |-> FALSE, url |-> url, page |-> src,
        jar |-> jar \cup (cookie_file.cookies \cap injected),
        calls |-> << "load_cookies" >>]
  ELSE [ret |-> IsLoggedInTry(read, src, url), url |-> url, page |-> src,
        jar |-> jar \cup (cookie_file.cookies \cap injected),
        calls |-> << "load_cookies", "_is_logged_in" >>]

LoadCookiesEnv(op) ==
  \E nav \in NavOutcomes, injected \in SUBSET CookieNames, addError \in BOOLEAN,
     url \in Addresses, src \in PageSources, read \in ReadOutcomes :
       LET e == LoadCookiesEffect(nav, injected, addError, url, src, read)
       IN  /\ au_ret' = e.ret
           /\ drv_url' = e.url
           /\ drv_page' = e.page
           /\ jar' = e.jar
           /\ au_calls' = op \o e.calls

\* load_cookies called on its own
LoadCookies ==
  /\ au_op' = "load_cookies"
  /\ LoadCookiesEnv(<< >>)
  /\ UNCHANGED cookie_file
  /\ UNCHANGED << crawlVars, scrapeVars, walkVars, extractVars >>

\* refresh_session (auth.py 156-164): load_cookies and nothing else
RefreshSession ==
  /\ au_op' = "refresh_session"
  /\ LoadCookiesEnv(<< "refresh_session" >>)
  /\ UNCHANGED cookie_file
  /\ UNCHANGED << crawlVars, scrapeVars, walkVars, extractVars >>

\* _save_cookies (auth.py 107-115): every failure is caught
SaveCookies(save, cookies) ==
  CASE save = "saved" -> ValidFile(cookies)
    [] save = "truncated" -> CorruptFile
    [] OTHER -> cookie_file

\* a faulty manual login, which saves the cookies whatever the re-check says
ManualLoginAlwaysSaves ==
  /\ au_op' = "manual_login_and_save_cookies"
  /\ UNCHANGED << crawlVars, scrapeVars, walkVars, extractVars >>
  /\ \E get \in GetOutcomes, url \in Addresses, src \in PageSources, read \in ReadOutcomes,
        cs \in SUBSET CookieNames, save \in SaveOutcomes :
       IF get = "raise"
       THEN /\ au_ret' = FALSE
            /\ au_calls' = << "manual_login_and_save_cookies" >>
            /\ UNCHANGED << drv_url, drv_page, jar, cookie_file >>
       ELSE /\ drv_url' = url
            /\ drv_page' = src
            /\ jar' = cs
            /\ au_ret' = IsLoggedInTry(read, src, url)
            /\ cookie_file' = SaveCookies(save, cs)
            /\ au_calls' = << "manual_login_and_save_cookies", "_is_logged_in",
                              "_save_cookies" >>

\* manual_login_and_save_cookies (auth.py 24-52)
ManualLogin ==
  /\ au_op' = "manual_login_and_save_cookies"
  /\ UNCHANGED << crawlVars, scrapeVars, walkVars, extractVars >>
  /\ \E get \in GetOutcomes, url \in Addresses, src \in PageSources, read \in ReadOutcomes,
        cs \in SUBSET CookieNames, save \in SaveOutcomes :
       IF get = "raise"
       THEN /\ au_ret' = FALSE
            /\ au_calls' = << "manual_login_and_save_cookies" >>
            /\ UNCHANGED << drv_url, drv_page, jar, cookie_file >>
       ELSE /\ drv_url' = url
            /\ drv_page' = src
            /\ jar' = cs
            /\ au_ret' = IsLoggedInTry(read, src, url)
            /\ IF IsLoggedInTry(read, src, url)
               THEN /\ cookie_file' = SaveCookies(save, cs)
                    /\ au_calls' = << "manual_login_and_save_cookies", "_is_logged_in",
                                      "_save_cookies" >>
               ELSE /\ cookie_file' = cookie_file
                    /\ au_calls' = << "manual_login_and_save_cookies", "_is_logged_in" >>

\* the cookie detection of main (main.py 79-96), run once after construction: without
\* a cookie file the manual login; with one, load_cookies, and the manual login when
\* it returns False; a failed manual login is reported and main goes on
SmartLogin ==
  /\ au_op = "none"
  /\ au_op' = "main"
  /\ UNCHANGED << crawlVars, scrapeVars, walkVars, extractVars >>
  /\ \E e \in IF cookie_file.state = "absent"
              THEN { [ret |-> FALSE, url |-> drv_url, page |-> drv_page, jar |-> jar,
                      calls |-> << >>] }
              ELSE { LoadCookiesEffect(nav, injected, addError, url, src, read) :
                       nav \in NavOutcomes, injected \in SUBSET CookieNames,
                       addError \in BOOLEAN, url \in Addresses, src \in PageSources,
                       read \in ReadOutcomes } :
       IF e.ret
       THEN /\ au_ret' = TRUE
            /\ drv_url' = e.url /\ drv_page' = e.page /\ jar' = e.jar
            /\ au_calls' = << "main" >> \o e.calls
            /\ UNCHANGED cookie_file
       ELSE \E get \in GetOutcomes, url \in Addresses, src \in PageSources,
               read \in ReadOutcomes, cs \in SUBSET CookieNames, save \in SaveOutcomes :
              IF get = "raise"
              THEN /\ au_ret' = FALSE
                   /\ drv_url' = e.url /\ drv_page' = e.page /\ jar' = e.jar
                   /\ au_calls' = << "main" >> \o e.calls
                                     \o << "manual_login_and_save_cookies" >>
                   /\ UNCHANGED cookie_file
              ELSE /\ drv_url' = url
                   /\ drv_page' = src
                   /\ jar' = cs
                   /\ au_ret' = IsLoggedInTry(read, src, url)
                   /\ IF IsLoggedInTry(read, src, url)
                      THEN /\ cookie_file' = SaveCookies(save, cs)
                           /\ au_calls' = << "main" >> \o e.calls
                                \o << "manual_login_and_save_cookies", "_is_logged_in",
                                      "_save_cookies" >>
                      ELSE /\ cookie_file' = cookie_file
                           /\ au_calls' = << "main" >> \o e.calls
                                \o << "manual_login_and_save_cookies", "_is_logged_in" >>

\* what a caller of check_session_status can see: the boolean, and whether the driver
\* left the page it was on (the get did not raise)
CheckSessionResults ==
  { [ok |-> IsLoggedInTry(read, src, url), navigated |-> TRUE] :
      read \in ReadOutcomes, src \in PageSources, url \in Addresses }
  \cup { [ok |-> FALSE, navigated |-> FALSE] }

\* the same of refresh_session: without a cookie file, with an unreadable one or when
\* the get raises, the driver stays where it was
RefreshSessionResults ==
  { [ok |-> IsLoggedInTry(read, src, url), navigated |-> TRUE] :
      read \in ReadOutcomes, src \in PageSources, url \in Addresses }
  \cup { [ok |-> FALSE, navigated |-> TRUE], [ok |-> FALSE, navigated |-> FALSE] }

\* the site, to the operations that do not look at it
NoSite == [elements |-> {}, stars |-> {}]

(***************************************************************************)
(* The idle values of each part of the state.                              *)
(***************************************************************************)
IdleCrawl ==
  /\ pc = "idle" /\ driver = "none" /\ catalog = {} /\ site = NoSite
  /\ organized_data = << >> /\ out_files = {}
  /\ top_count = 0 /\ max_pages = 0 /\ star_filter = << >>
  /\ products = << >> /\ pidx = 0 /\ all_reviews = << >> /\ result = None
  /\ crawlLog = << >>

IdleScrape ==
  /\ product_url = << >> /\ asin = None /\ vidx = 0 /\ success = FALSE
  /\ reviews = << >> /\ sidx = 0 /\ ret = None /\ raised = FALSE
  /\ sessLog = [check |-> "none", refresh |-> "none"]
  /\ lastNav = 0 /\ lastLanding = None /\ navsThis = 0 /\ recsThis = 0
  /\ walkLog = << >> /\ curFilter = None

IdleWalk ==
  /\ page = 0 /\ walk_reviews = << >> /\ site_listing = 0 /\ site_page = 0
  /\ pagesScraped = 0 /\ clicks = 0 /\ lookups = 0

IdleAuth ==
  /\ drv_url = AMAZON_BASE_URL /\ drv_page = {} /\ jar = {} /\ cookie_file = NoFile
  /\ au_op = "none" /\ au_ret = FALSE /\ au_calls = << >>

IdleExtract ==
  /\ ex_kind = None /\ ex_rec = << >> /\ ex_field = None /\ ex_i = 0
  /\ ex_state = "idle" /\ ex_val = << >> /\ ex_src = None /\ ex_allMiss = TRUE
  /\ ex_seen = << >>

(***************************************************************************)
(* DataExtractor lookups on the whole page (src/src/utils.py 245-330).     *)
(***************************************************************************)
\* find_elements_by_selectors: counts[i] is how many elements selector i finds,
\* -1 when the lookup raises; the first non-empty list wins
RECURSIVE FirstNonEmpty(_, _)
FirstNonEmpty(counts, i) ==
  IF i > Len(counts) THEN 0
  ELSE IF counts[i] > 0 THEN counts[i]
  ELSE FirstNonEmpty(counts, i + 1)

FindElementsBySelectors(counts) == FirstNonEmpty(counts, 1)

\* how many review elements find_elements_by_selectors can return on one page, when
\* each selector finds one of perSelector elements or its lookup raises
ElementCounts(perSelector) ==
  { FindElementsBySelectors(counts) :
      counts \in [1..Len(SELECTORS.review_elements) -> perSelector \cup { -1 }] }

\* find_next_page_button: per selector the control is missing (the lookup raises),
\* disabled or enabled; the index of the first enabled one, 0 for None
LookupOutcomes == { "missing", "disabled", "enabled" }

RECURSIVE FirstEnabled(_, _)
FirstEnabled(found, i) ==
  IF i > Len(found) THEN 0
  ELSE IF found[i] = "enabled" THEN i
  ELSE FirstEnabled(found, i + 1)

FindNextPageButton(found) == FirstEnabled(found, 1)

NextButtons ==
  { FindNextPageButton(found) : found \in [1..Len(SELECTORS.next_page) -> LookupOutcomes] }

\* apply_star_filter: per selector the control is missing, disabled, enabled with a
\* click that raises, or enabled and clicked; True at the first one clicked
FilterOutcomes == { "missing", "disabled", "click_raises", "clicked" }

RECURSIVE FirstClicked(_, _)
FirstClicked(found, i) ==
  IF i > Len(found) THEN FALSE
  ELSE IF found[i] = "clicked" THEN TRUE
  ELSE FirstClicked(found, i + 1)

ApplyStarFilter(found) == FirstClicked(found, 1)

StarFilterResults ==
  { ApplyStarFilter(found) : found \in [1..Len(StarSelectors) -> FilterOutcomes] }

(***************************************************************************)
(* _scrape_review_pages (src/src/crawler.py 260-309).                      *)
(***************************************************************************)
\* a faulty list.extend, which puts the new items first
ExtendFront(list, more) == more \o list

\* list.extend: the new items follow the ones already there, in their order
Extend(list, more) == list \o more

\* a faulty loop head, without the cap
InRangeUnbounded(p, n) == TRUE

\* `for page in range(max_pages)`: whether the loop has another iteration
InRange(p, n) == p < n

WalkPc(p) == IF InRange(p, max_pages) THEN "wk_scrape" ELSE "wk_return"

\* the call: all_reviews = [], then the loop
BeginWalk ==
  /\ page' = 0
  /\ walk_reviews' = << >>
  /\ pagesScraped' = 0 /\ clicks' = 0 /\ lookups' = 0
  /\ pc' = WalkPc(0)

\* the textContent of the rating of a review with `star` stars
Digits == << "0", "1", "2", "3", "4", "5", "6", "7", "8", "9" >>

StarText(star) ==
  << Digits[star + 1], ".", "0", " ", "o", "f", " ", "5" >>

\* the rating texts the reviews of the listing shown carry: a listing filtered by a
\* rating shows reviews of that rating only
ListingStars == IF site_listing = 0 THEN site.stars ELSE { StarText(site_listing) }

\* _extract_rating (utils.py 199-206) on a rating element with this textContent,
\* NoAttr when the element is missing
StarRating(textContent) ==
  IF Truthy(textContent) /\ FirstToken(textContent) # << >>
  THEN FirstToken(textContent)
  ELSE NAText

\* extract_review_data on element k of the page shown: the record, named by its
\* element, with the rating read from it
ReviewData(k, textContent) ==
  [elem |-> [asin |-> asin, listing |-> site_listing, page |-> site_page, pos |-> k],
   star_rating |-> StarRating(textContent)]

\* extract_review_data returns, or raises what _extract_text_by_selectors lets through
ExtractOutcomes(n) == IF n = 0 THEN { "ok" } ELSE { "ok", "raise" }

\* the except of scrape_reviews (crawler.py 256-258)
ScrapeExcept ==
  /\ ret' = << >>
  /\ raised' = TRUE
  /\ pc' = "sr_ret"

\* a faulty walker, which returns at a page without review element
AfterPagePcStopOnEmpty(n) == IF n = 0 THEN "wk_return" ELSE "wk_advance"

\* lines 280-295: with n review elements or with none (the else only prints), the
\* body goes on to `if page < max_pages - 1`
AfterPagePc(n) == "wk_advance"

\* lines 273-292: find the review elements of the page and extract each
ScrapePage ==
  /\ pc = "wk_scrape"
  /\ \E n \in site.elements, ex \in { "ok", "raise" } :
       \E texts \in [1..n -> ListingStars] :
         /\ ex \in ExtractOutcomes(n)
         /\ IF ex = "raise"
            THEN /\ ScrapeExcept
                 /\ UNCHANGED << walk_reviews, pagesScraped >>
            ELSE /\ walk_reviews' = Extend(walk_reviews,
                                           [k \in 1..n |-> ReviewData(k, texts[k])])
                 /\ pagesScraped' = pagesScraped + 1
                 /\ pc' = AfterPagePc(n)
                 /\ UNCHANGED << ret, raised >>
  /\ UNCHANGED << page, site_listing, site_page, clicks, lookups >>
  /\ UNCHANGED << driver, catalog, site, top_count, max_pages, star_filter, products, pidx,
                  all_reviews, organized_data, out_files, result, crawlLog >>
  /\ UNCHANGED << product_url, asin, vidx, success, reviews, sidx, sessLog, lastNav,
                  lastLanding, navsThis, recsThis, walkLog, curFilter >>
  /\ UNCHANGED << authVars, extractVars >>

\* lines 294-307: the next control is looked up only before the last page
ClickOutcomes == { "ok", "raise" }

\* a faulty test, which tries to go on after the last page too
BeforeLastPageLoose(p, n) == p < n

\* `if page < max_pages - 1` (line 295)
BeforeLastPage(p, n) == p < n - 1

AdvancePage ==
  /\ pc = "wk_advance"
  /\ IF BeforeLastPage(page, max_pages)
     THEN \E next_btn \in NextButtons, click \in ClickOutcomes :
            /\ lookups' = lookups + 1
            /\ IF next_btn = 0
               THEN \* no enabled control: break
                    /\ pc' = "wk_return"
                    /\ UNCHANGED << page, clicks, site_page >>
               ELSE IF click = "raise"
               THEN \* the click raised: break
                    /\ clicks' = clicks + 1
                    /\ pc' = "wk_return"
                    /\ UNCHANGED << page, site_page >>
               ELSE /\ clicks' = clicks + 1
                    /\ site_page' = site_page + 1
                    /\ page' = page + 1
                    /\ pc' = WalkPc(page + 1)
     ELSE /\ page' = page + 1
          /\ pc' = WalkPc(page + 1)
          /\ UNCHANGED << clicks, lookups, site_page >>
  /\ UNCHANGED << walk_reviews, site_listing, pagesScraped >>
  /\ UNCHANGED << driver, catalog, site, top_count, max_pages, star_filter, products, pidx,
                  all_reviews, organized_data, out_files, result, crawlLog >>
  /\ UNCHANGED << scrapeVars, authVars, extractVars >>

(***************************************************************************)
(* scrape_reviews (src/src/crawler.py 149-258).                            *)
(***************************************************************************)
\* a faulty test, which finds the marker in no address
HasDpNever(url) == FALSE

\* `'/dp/' in product_url`: a "dp" segment with a slash on both sides
HasDp(url) == \E i \in 2..(Len(url) - 1) : url[i] = "dp"

\* product_url.split('/dp/')[1].split('/')[0]: the segment after the first "dp"
Asin(url) ==
  LET i == CHOOSE j \in 2..(Len(url) - 1) :
             url[j] = "dp" /\ \A k \in 2..(j - 1) : url[k] # "dp"
  IN  url[i + 1]

\* review_urls (lines 186-191), in their declared order
ReviewUrls(a) ==
  << AMAZON_BASE_URL \o << "product-reviews", a, "ref=cm_cr_dp_d_show_all_btm" >>,
     AMAZON_BASE_URL \o << "product-reviews", a, "" >>,
     AMAZON_BASE_URL \o << "product-reviews", a,
                           "ref=cm_cr_dp_d_show_all_btm?ie=UTF8&reviewerType=all_reviews" >>,
     AMAZON_BASE_URL \o << "product-reviews", a,
        "ref=cm_cr_dp_d_show_all_btm?ie=UTF8&reviewerType=all_reviews&sortBy=recent" >> >>

\* where driver.get(url) can land: the page asked for, the sign-in page (with or
\* without the reviews address as its return address), another page; or it raises
Raise == << "raise" >>

NavResults(url) ==
  { url,
    AMAZON_LOGIN_URL,
    AMAZON_LOGIN_URL \o << "openid.return_to", "product-reviews" >>,
    AMAZON_BASE_URL \o << "errors", "validateCaptcha" >>,
    Raise }

\* line 204 and line 216
IsReviewsPage(current_url) ==
  Contains(current_url, "product-reviews") /\ ~Contains(current_url, "signin")

\* line 208
IsSignin(current_url) == Contains(current_url, "signin")

\* the head of `for url in review_urls`
UrlLoopPc(v) == IF v <= Len(ReviewUrls(asin)) THEN "sr_try" ELSE "sr_urls_done"

\* setup_driver when there is no driver yet (lines 162-163): it may raise
SetupOutcomes == IF driver = "none" THEN { "ok", "raise" } ELSE { "ok" }

\* the frame of a call of scrape_reviews(url, star_filter, max_pages)
BeginScrape(url) ==
  /\ product_url' = url
  /\ asin' = None /\ vidx' = 0 /\ success' = FALSE
  /\ reviews' = << >> /\ sidx' = 0 /\ ret' = None /\ raised' = FALSE
  /\ sessLog' = [check |-> "none", refresh |-> "none"]
  /\ lastNav' = 0 /\ lastLanding' = None /\ navsThis' = 0 /\ recsThis' = 0
  /\ walkLog' = << >> /\ curFilter' = None
  /\ pc' = "sr_check"

\* `return []` (lines 170, 178, 233)
ReturnEmpty ==
  /\ ret' = << >>
  /\ pc' = "sr_ret"

\* the reviews page is shown: the unfiltered listing, at its first page
ShowReviews ==
  /\ site_listing' = 0
  /\ site_page' = 1

\* the driver shows a page that is no reviews listing, or stays where it was
LeaveReviews(navigated) ==
  IF navigated
  THEN site_listing' = 0 /\ site_page' = 0
  ELSE UNCHANGED << site_listing, site_page >>

\* a faulty start of scrape_reviews, which sets the driver up and goes on to the
\* reviews address without check_session_status
CheckSessionSkipped ==
  /\ pc = "sr_check"
  /\ \E setup \in SetupOutcomes :
       IF setup = "raise"
       THEN /\ ScrapeExcept
            /\ UNCHANGED << driver, sessLog, site_listing, site_page >>
       ELSE /\ driver' = "open"
            /\ pc' = "sr_derive"
            /\ UNCHANGED << ret, raised, sessLog, site_listing, site_page >>
  /\ UNCHANGED << catalog, site, top_count, max_pages, star_filter, products, pidx,
                  all_reviews, organized_data, out_files, result, crawlLog >>
  /\ UNCHANGED << product_url, asin, vidx, success, reviews, sidx, lastNav, lastLanding,
                  navsThis, recsThis, walkLog, curFilter >>
  /\ UNCHANGED << page, walk_reviews, pagesScraped, clicks, lookups >>
  /\ UNCHANGED << authVars, extractVars >>

\* lines 162-166: the driver is set up if missing, then check_session_status
CheckSession ==
  /\ pc = "sr_check"
  /\ \E setup \in SetupOutcomes, status \in CheckSessionResults :
       IF setup = "raise"
       THEN /\ ScrapeExcept
            /\ UNCHANGED << driver, sessLog, site_listing, site_page >>
       ELSE /\ driver' = "open"
            /\ sessLog' = [sessLog EXCEPT !.check = IF status.ok THEN "ok" ELSE "expired"]
            /\ pc' = IF status.ok THEN "sr_derive" ELSE "sr_refresh"
            /\ LeaveReviews(status.navigated)
            /\ UNCHANGED << ret, raised >>
  /\ UNCHANGED << catalog, site, top_count, max_pages, star_filter, products, pidx,
                  all_reviews, organized_data, out_files, result, crawlLog >>
  /\ UNCHANGED << product_url, asin, vidx, success, reviews, sidx, lastNav, lastLanding,
                  navsThis, recsThis, walkLog, curFilter >>
  /\ UNCHANGED << page, walk_reviews, pagesScraped, clicks, lookups >>
  /\ UNCHANGED << authVars, extractVars >>

\* two faulty readings of refresh_session's result: one gives up whatever it
\* returned, the other goes on whatever it returned
SessionRecoverAlwaysFails(ok) == TRUE

SessionRecoverNeverFails(ok) == FALSE

\* `if not self.auth_manager.refresh_session()` (line 168)
SessionRecoverFails(ok) == ~ok

\* lines 167-170: the session is expired: refresh_session, and `return []` if it fails
RecoverSession ==
  /\ pc = "sr_refresh"
  /\ \E status \in RefreshSessionResults :
       /\ sessLog' = [sessLog EXCEPT !.refresh = IF status.ok THEN "ok" ELSE "failed"]
       /\ LeaveReviews(status.navigated)
       /\ IF SessionRecoverFails(status.ok)
          THEN ReturnEmpty
          ELSE /\ pc' = "sr_derive"
               /\ UNCHANGED ret
  /\ UNCHANGED << driver, catalog, site, top_count, max_pages, star_filter, products, pidx,
                  all_reviews, organized_data, out_files, result, crawlLog >>
  /\ UNCHANGED << product_url, asin, vidx, success, reviews, sidx, raised, lastNav,
                  lastLanding, navsThis, recsThis, walkLog, curFilter >>
  /\ UNCHANGED << page, walk_reviews, pagesScraped, clicks, lookups >>
  /\ UNCHANGED << authVars, extractVars >>

\* lines 172-191: the reviews address is derived from the product address
DeriveReviewsUrl ==
  /\ pc = "sr_derive"
  /\ IF HasDp(product_url)
     THEN /\ asin' = Asin(product_url)
          /\ vidx' = 1
          /\ pc' = "sr_try"
          /\ UNCHANGED ret
     ELSE /\ ReturnEmpty
          /\ UNCHANGED << asin, vidx >>
  /\ UNCHANGED << driver, catalog, site, top_count, max_pages, star_filter, products, pidx,
                  all_reviews, organized_data, out_files, result, crawlLog >>
  /\ UNCHANGED << product_url, success, reviews, sidx, raised, sessLog, lastNav,
                  lastLanding, navsThis, recsThis, walkLog, curFilter >>
  /\ UNCHANGED << walkVars, authVars, extractVars >>

\* how line 204/208/223 reads the address a navigation landed on
Landing(current_url) ==
  IF current_url = Raise THEN "raise"
  ELSE IF IsReviewsPage(current_url) THEN "reviews"
  ELSE IF IsSignin(current_url) THEN "signin"
  ELSE "other"

\* a faulty `continue`, which tries the same variant again
NextVariantSame ==
  /\ vidx' = vidx
  /\ navsThis' = 0
  /\ recsThis' = 0
  /\ pc' = "sr_try"

\* `continue`, or the end of the loop body: the next variant
NextVariant ==
  /\ vidx' = vidx + 1
  /\ navsThis' = 0
  /\ recsThis' = 0
  /\ pc' = UrlLoopPc(vidx + 1)

\* a faulty acceptance, without the break
AcceptPcNoBreak == "sr_try"

\* `success = True; break` (lines 206-207, 218-219): the loop is left
AcceptPc == "sr_urls_done"

Accept ==
  /\ success' = TRUE
  /\ pc' = AcceptPc
  /\ ShowReviews
  /\ UNCHANGED << vidx, recsThis >>

\* lines 194-208, 223-229: one variant is navigated to and the address it lands on read
TryUrl ==
  /\ pc = "sr_try"
  /\ \E current_url \in NavResults(ReviewUrls(asin)[vidx]) :
       /\ lastNav' = vidx
       /\ lastLanding' = Landing(current_url)
       /\ IF current_url = Raise
          THEN /\ NextVariant
               /\ UNCHANGED << success, site_listing, site_page >>
          ELSE IF IsReviewsPage(current_url)
          THEN /\ Accept
               /\ navsThis' = navsThis + 1
          ELSE IF IsSignin(current_url)
          THEN /\ pc' = "sr_recover"
               /\ navsThis' = navsThis + 1
               /\ LeaveReviews(TRUE)
               /\ UNCHANGED << vidx, success, recsThis >>
          ELSE /\ NextVariant
               /\ LeaveReviews(TRUE)
               /\ UNCHANGED success
  /\ UNCHANGED << driver, catalog, site, top_count, max_pages, star_filter, products, pidx,
                  all_reviews, organized_data, out_files, result, crawlLog >>
  /\ UNCHANGED << product_url, asin, reviews, sidx, ret, raised, sessLog, walkLog,
                  curFilter >>
  /\ UNCHANGED << page, walk_reviews, pagesScraped, clicks, lookups >>
  /\ UNCHANGED << authVars, extractVars >>

\* lines 209-222: the variant landed on sign-in: one refresh_session
RecoverInLoop ==
  /\ pc = "sr_recover"
  /\ \E status \in RefreshSessionResults :
       /\ LeaveReviews(status.navigated)
       /\ IF status.ok
          THEN /\ pc' = "sr_retry"
               /\ recsThis' = recsThis + 1
               /\ UNCHANGED << vidx, navsThis >>
          ELSE NextVariant
  /\ UNCHANGED << driver, catalog, site, top_count, max_pages, star_filter, products, pidx,
                  all_reviews, organized_data, out_files, result, crawlLog >>
  /\ UNCHANGED << product_url, asin, success, reviews, sidx, ret, raised, sessLog, lastNav,
                  lastLanding, walkLog, curFilter >>
  /\ UNCHANGED << page, walk_reviews, pagesScraped, clicks, lookups >>
  /\ UNCHANGED << authVars, extractVars >>

\* lines 211-219: the same variant is navigated to once more
RetryUrl ==
  /\ pc = "sr_retry"
  /\ \E current_url \in NavResults(ReviewUrls(asin)[vidx]) :
       /\ lastNav' = vidx
       /\ lastLanding' = Landing(current_url)
       /\ IF current_url # Raise /\ IsReviewsPage(current_url)
          THEN /\ Accept
               /\ navsThis' = navsThis + 1
          ELSE /\ NextVariant
               /\ LeaveReviews(current_url # Raise)
               /\ UNCHANGED success
  /\ UNCHANGED << driver, catalog, site, top_count, max_pages, star_filter, products, pidx,
                  all_reviews, organized_data, out_files, result, crawlLog >>
  /\ UNCHANGED << product_url, asin, reviews, sidx, ret, raised, sessLog, walkLog,
                  curFilter >>
  /\ UNCHANGED << page, walk_reviews, pagesScraped, clicks, lookups >>
  /\ UNCHANGED << authVars, extractVars >>

\* `if star_filter:` (line 238): None and the empty list both mean no filter
HasStarFilter == Len(star_filter) > 0

\* a faulty end of the address loop, without `if not success: return []`
UrlsDoneNoCheck ==
  /\ pc = "sr_urls_done"
  /\ lastNav' = 0 /\ lastLanding' = None /\ navsThis' = 0 /\ recsThis' = 0
  /\ IF HasStarFilter
     THEN /\ reviews' = << >>
          /\ sidx' = 1
          /\ pc' = "sr_filter"
          /\ UNCHANGED << ret, walkVars >>
     ELSE /\ reviews' = << >>
          /\ BeginWalk
          /\ UNCHANGED << ret, sidx, site_listing, site_page >>
  /\ UNCHANGED << driver, catalog, site, top_count, max_pages, star_filter, products, pidx,
                  all_reviews, organized_data, out_files, result, crawlLog >>
  /\ UNCHANGED << product_url, asin, vidx, success, raised, sessLog, walkLog, curFilter >>
  /\ UNCHANGED << authVars, extractVars >>

\* lines 231-252: after the address loop
UrlsDone ==
  /\ pc = "sr_urls_done"
  /\ lastNav' = 0 /\ lastLanding' = None /\ navsThis' = 0 /\ recsThis' = 0
  /\ IF ~success
     THEN /\ ReturnEmpty
          /\ UNCHANGED << reviews, sidx, walkVars >>
     ELSE IF HasStarFilter
     THEN /\ reviews' = << >>
          /\ sidx' = 1
          /\ pc' = "sr_filter"
          /\ UNCHANGED << ret, walkVars >>
     ELSE /\ reviews' = << >>
          /\ BeginWalk
          /\ UNCHANGED << ret, sidx, site_listing, site_page >>
  /\ UNCHANGED << driver, catalog, site, top_count, max_pages, star_filter, products, pidx,
                  all_reviews, organized_data, out_files, result, crawlLog >>
  /\ UNCHANGED << product_url, asin, vidx, success, raised, sessLog, walkLog, curFilter >>
  /\ UNCHANGED << authVars, extractVars >>

\* lines 241-246: apply_star_filter(star), its result dropped, then the walk
StarFilterStep ==
  /\ pc = "sr_filter"
  /\ \E applied \in StarFilterResults :
       /\ curFilter' = applied
       /\ IF applied
          THEN /\ site_listing' = star_filter[sidx]
               /\ site_page' = 1
          ELSE UNCHANGED << site_listing, site_page >>
  /\ BeginWalk
  /\ UNCHANGED << driver, catalog, site, top_count, max_pages, star_filter, products, pidx,
                  all_reviews, organized_data, out_files, result, crawlLog >>
  /\ UNCHANGED << product_url, asin, vidx, success, reviews, sidx, ret, raised, sessLog,
                  lastNav, lastLanding, navsThis, recsThis, walkLog >>
  /\ UNCHANGED << authVars, extractVars >>

\* lines 247-254: the walk returned; its reviews are kept and the next rating taken
WalkReturn ==
  /\ pc = "wk_return"
  /\ IF HasStarFilter
     THEN /\ reviews' = Extend(reviews, walk_reviews)
          /\ walkLog' = Append(walkLog, [star |-> star_filter[sidx], applied |-> curFilter,
                                         n |-> Len(walk_reviews)])
          /\ IF sidx < Len(star_filter)
             THEN /\ sidx' = sidx + 1
                  /\ pc' = "sr_filter"
                  /\ UNCHANGED ret
             ELSE /\ ret' = Extend(reviews, walk_reviews)
                  /\ pc' = "sr_ret"
                  /\ UNCHANGED sidx
     ELSE /\ reviews' = walk_reviews
          /\ walkLog' = Append(walkLog, [star |-> 0, applied |-> None,
                                         n |-> Len(walk_reviews)])
          /\ ret' = walk_reviews
          /\ pc' = "sr_ret"
          /\ UNCHANGED sidx
  /\ UNCHANGED << driver, catalog, site, top_count, max_pages, star_filter, products, pidx,
                  all_reviews, organized_data, out_files, result, crawlLog >>
  /\ UNCHANGED << product_url, asin, vidx, success, raised, sessLog, lastNav, lastLanding,
                  navsThis, recsThis, curFilter >>
  /\ UNCHANGED << walkVars, authVars, extractVars >>

ScrapeStep ==
  \/ CheckSession
  \/ RecoverSession
  \/ DeriveReviewsUrl
  \/ TryUrl
  \/ RecoverInLoop
  \/ RetryUrl
  \/ UrlsDone
  \/ StarFilterStep
  \/ ScrapePage
  \/ AdvancePage
  \/ WalkReturn

(***************************************************************************)
(* SpecScrape: scrape_reviews(product_url, star_filter, max_pages) called  *)
(* once, as main.py calls it for each product.                             *)
(***************************************************************************)
ProductUrls ==
  { AMAZON_BASE_URL \o << "dp", "B01" >>,
    AMAZON_BASE_URL \o << "Some-Mouse", "dp", "B02", "ref=sr_1_1" >>,
    AMAZON_BASE_URL \o << "gp", "product", "B03" >>,
    << NA >> }

\* a page holds up to MaxElems review elements; the reviews of an unfiltered listing
\* have five stars
CrawlSite == [elements |-> ElementCounts(0..MaxElems), stars |-> { StarText(5) }]

\* --star-filter: none, one rating, two ratings
StarFilters == { << >>, << 4 >>, << 4, 5 >> }

InitScrape ==
  /\ pc = "sr_check"
  /\ driver \in { "none", "open" }
  /\ catalog = {}
  /\ site = CrawlSite
  /\ organized_data = << >> /\ out_files = {}
  /\ top_count = 0
  /\ max_pages \in 0..MaxPages
  /\ star_filter \in StarFilters
  /\ products = << >> /\ pidx = 0 /\ all_reviews = << >> /\ result = None
  /\ crawlLog = << >>
  /\ product_url \in ProductUrls
  /\ asin = None /\ vidx = 0 /\ success = FALSE
  /\ reviews = << >> /\ sidx = 0 /\ ret = None /\ raised = FALSE
  /\ sessLog = [check |-> "none", refresh |-> "none"]
  /\ lastNav = 0 /\ lastLanding = None /\ navsThis = 0 /\ recsThis = 0
  /\ walkLog = << >> /\ curFilter = None
  /\ IdleWalk /\ IdleAuth /\ IdleExtract

NextScrape == ScrapeStep

SpecScrape == InitScrape /\ [][NextScrape]_vars

(***************************************************************************)
(* search_products and crawl_amazon (src/src/crawler.py 95-147, 311-376).  *)
(***************************************************************************)
\* records extract_product_data can build from a result container: an address with
\* /dp/ (plain, or with a name before and a tag after it), one with /gp/product/
\* only, and no address at all
ProductDp ==
  [title |-> "Mouse A", price |-> "19", rating |-> "4.5 out of 5 stars",
   url |-> AMAZON_BASE_URL \o << "dp", "B01" >>]

ProductDpLong ==
  [title |-> "Mouse A", price |-> NA, rating |-> NA,
   url |-> AMAZON_BASE_URL \o << "Some-Mouse", "dp", "B02", "ref=sr_1_1" >>]

ProductGp ==
  [title |-> "Mouse C", price |-> NA, rating |-> NA,
   url |-> AMAZON_BASE_URL \o << "gp", "product", "B03" >>]

ProductNoUrl == [title |-> NA, price |-> NA, rating |-> NA, url |-> << NA >>]

Min(a, b) == IF a < b THEN a ELSE b

\* product_elements[:top_count]
Shown(n, top) == Min(n, top)

\* what search_products can return: [] when the driver cannot be set up, the get
\* raises, no container is found or an extraction raises; else one record per
\* container among the first top_count
SearchOutcomes == { "ok", "setup_raise", "raise" }

\* a faulty crawl_amazon, without `if not products: return`
SearchProductsNoStop ==
  /\ pc = "cr_search"
  /\ \E out \in SearchOutcomes, n \in 0..MaxContainers :
       \E found \in [1..Shown(n, top_count) -> catalog] :
         /\ driver' = IF out = "setup_raise" THEN "none" ELSE "open"
         /\ products' = IF out = "ok" THEN found ELSE << >>
         /\ pidx' = 1
         /\ pc' = "cr_loop"
         /\ result' = result
  /\ UNCHANGED << catalog, site, top_count, max_pages, star_filter, all_reviews,
                  organized_data, out_files, crawlLog >>
  /\ UNCHANGED << scrapeVars, walkVars, authVars, extractVars >>

SearchProducts ==
  /\ pc = "cr_search"
  /\ \E out \in SearchOutcomes, n \in 0..MaxContainers :
       \E found \in [1..Shown(n, top_count) -> catalog] :
         /\ driver' = IF out = "setup_raise" THEN "none" ELSE "open"
         /\ products' = IF out = "ok" THEN found ELSE << >>
         /\ IF out = "ok" /\ Len(found) > 0
            THEN /\ pidx' = 1
                 /\ pc' = "cr_loop"
                 /\ result' = result
            ELSE \* lines 331-333
                 /\ pidx' = 0
                 /\ pc' = "done"
                 /\ result' = [products |-> << >>, reviews |-> << >>, summary |-> << >>]
  /\ UNCHANGED << catalog, site, top_count, max_pages, star_filter, all_reviews,
                  organized_data, out_files, crawlLog >>
  /\ UNCHANGED << scrapeVars, walkVars, authVars, extractVars >>

\* a faulty head of the product loop, which hands every product to scrape_reviews
ProductLoopNoSkip ==
  /\ pc = "cr_loop"
  /\ IF pidx > Len(products)
     THEN /\ pc' = "cr_finish"
          /\ UNCHANGED << pidx, crawlLog, scrapeVars >>
     ELSE /\ BeginScrape(products[pidx].url)
          /\ UNCHANGED << pidx, crawlLog >>
  /\ UNCHANGED << driver, catalog, site, top_count, max_pages, star_filter, products,
                  all_reviews, organized_data, out_files, result >>
  /\ UNCHANGED << walkVars, authVars, extractVars >>

\* lines 337-343: the head of the product loop: a product without an address is
\* skipped, any other is handed to scrape_reviews
ProductLoop ==
  /\ pc = "cr_loop"
  /\ IF pidx > Len(products)
     THEN /\ pc' = "cr_finish"
          /\ UNCHANGED << pidx, crawlLog, scrapeVars >>
     ELSE IF products[pidx].url = << NA >>
     THEN /\ pidx' = pidx + 1
          /\ crawlLog' = Append(crawlLog, [status |-> "skipped", check |-> "none",
                                           refresh |-> "none", raised |-> FALSE,
                                           derived |-> FALSE, reached |-> FALSE,
                                           got |-> << >>])
          /\ pc' = "cr_loop"
          /\ UNCHANGED scrapeVars
     ELSE /\ BeginScrape(products[pidx].url)
          /\ UNCHANGED << pidx, crawlLog >>
  /\ UNCHANGED << driver, catalog, site, top_count, max_pages, star_filter, products,
                  all_reviews, organized_data, out_files, result >>
  /\ UNCHANGED << walkVars, authVars, extractVars >>

\* lines 346-348: the product's title and address are written into each review
Enrich(rs, product) ==
  [k \in 1..Len(rs) |->
     [elem |-> rs[k].elem, star_rating |-> rs[k].star_rating,
      product_title |-> product.title, product_url |-> product.url]]

\* lines 345-351: scrape_reviews returned; the frames of the call are gone
CollectReviews ==
  /\ pc = "sr_ret"
  /\ all_reviews' = Extend(all_reviews, Enrich(ret, products[pidx]))
  /\ crawlLog' = Append(crawlLog, [status |-> "scraped", check |-> sessLog.check,
                                   refresh |-> sessLog.refresh, raised |-> raised,
                                   derived |-> (asin # None), reached |-> success,
                                   got |-> ret])
  /\ pidx' = pidx + 1
  /\ pc' = "cr_loop"
  /\ product_url' = << >> /\ asin' = None /\ vidx' = 0 /\ success' = FALSE
  /\ reviews' = << >> /\ sidx' = 0 /\ ret' = None /\ raised' = FALSE
  /\ sessLog' = [check |-> "none", refresh |-> "none"]
  /\ lastNav' = 0 /\ lastLanding' = None /\ navsThis' = 0 /\ recsThis' = 0
  /\ walkLog' = << >> /\ curFilter' = None
  /\ page' = 0 /\ walk_reviews' = << >> /\ pagesScraped' = 0 /\ clicks' = 0 /\ lookups' = 0
  /\ UNCHANGED << site_listing, site_page >>
  /\ UNCHANGED << driver, catalog, site, top_count, max_pages, star_filter, products,
                  organized_data, out_files, result >>
  /\ UNCHANGED << authVars, extractVars >>

\* a faulty numbering, which starts at 0
ProcessProductsFromZero(ps) ==
  [i \in 1..Len(ps) |->
     [product_id |-> i - 1, title |-> ps[i].title, price |-> ps[i].price,
      rating |-> ps[i].rating, url |-> ps[i].url]]

\* process_products_data (data.py 119-144)
ProcessProducts(ps) ==
  [i \in 1..Len(ps) |->
     [product_id |-> i, title |-> ps[i].title, price |-> ps[i].price,
      rating |-> ps[i].rating, url |-> ps[i].url]]

\* process_reviews_data (data.py 146-173)
ProcessReviews(rs) ==
  [i \in 1..Len(rs) |->
     [review_id |-> i, product_title |-> rs[i].product_title,
      product_url |-> rs[i].product_url, star_rating |-> rs[i].star_rating,
      elem |-> rs[i].elem]]

\* the key of the reviews whose rating was not read
Unknown == << "u", "n", "k", "n", "o", "w", "n" >>

\* the digits a text starts with
RECURSIVE LeadingDigits(_)
LeadingDigits(t) ==
  IF t = << >> THEN << >>
  ELSE IF IsDigit(Head(t)) THEN << Head(t) >> \o LeadingDigits(Tail(t))
  ELSE << >>

\* float(text) takes digits, with a point and more digits after them or not; it
\* raises ValueError on a word, and on a comma in the place of the point
IsFloat(t) ==
  LET whole == LeadingDigits(t)
      rest  == SubSeq(t, Len(whole) + 1, Len(t))
  IN  /\ whole # << >>
      /\ \/ rest = << >>
         \/ Head(rest) = "." /\ \A i \in 2..Len(rest) : IsDigit(rest[i])

\* int(float(text)): the fraction is cut off
RECURSIVE ToNat(_)
ToNat(ds) ==
  IF ds = << >> THEN 0
  ELSE 10 * ToNat(SubSeq(ds, 1, Len(ds) - 1))
       + (CHOOSE n \in 0..9 : Digits[n + 1] = ds[Len(ds)])

IntOfFloat(t) == ToNat(LeadingDigits(t))

\* str(n)
RECURSIVE Str(_)
Str(n) == IF n < 10 THEN << Digits[n + 1] >> ELSE Str(n \div 10) \o << Digits[(n % 10) + 1] >>

\* a faulty key: the rating as it was read
StarKeyRaw(star_rating) == star_rating

\* organize_products_with_reviews, lines 213-222: the key a review is filed under
StarKey(star_rating) ==
  IF star_rating # NAText
  THEN IF IsFloat(star_rating) THEN Str(IntOfFloat(star_rating)) ELSE star_rating
  ELSE Unknown

\* lines 206-207: a review matches a product by the title or by the address
Matches(review, product) ==
  review.product_title = product.title \/ review.product_url = product.url

\* lines 203-209: the first entry, in the order of the keys, whose product the
\* review matches; 0 stands for None
RECURSIVE FirstMatch(_, _, _)
FirstMatch(organized, review, i) ==
  IF i > Len(organized) THEN 0
  ELSE IF Matches(review, organized[i].product_data) THEN i
  ELSE FirstMatch(organized, review, i + 1)

MatchedProductKey(organized, review) == FirstMatch(organized, review, 1)

\* a faulty filing, in which the list of a key is made anew for every review
FileUnderAnew(buckets, key, review) ==
  [k \in DOMAIN buckets \cup { key } |-> IF k = key THEN << review >> ELSE buckets[k]]

\* lines 225-228: the review is appended to the list of its key, which is made
\* when the key is new
FileUnder(buckets, key, review) ==
  IF key \in DOMAIN buckets
  THEN [buckets EXCEPT ![key] = Append(@, review)]
  ELSE [k \in DOMAIN buckets \cup { key } |->
          IF k = key THEN << review >> ELSE buckets[k]]

\* lines 197-228: one turn of the loop over the reviews; a review that matches no
\* product is left out
AddReview(organized, review) ==
  LET matched == MatchedProductKey(organized, review)
  IN  IF matched = 0 THEN organized
      ELSE [organized EXCEPT
              ![matched].reviews = FileUnder(@, StarKey(review.star_rating), review)]

RECURSIVE AddReviews(_, _, _)
AddReviews(organized, rs, i) ==
  IF i > Len(rs) THEN organized
  ELSE AddReviews(AddReview(organized, rs[i]), rs, i + 1)

\* organize_products_with_reviews (data.py 175-230): entry i is the one of the key
\* product_i
OrganizeProductsWithReviews(ps, rs) ==
  AddReviews([i \in 1..Len(ps) |-> [product_data |-> ps[i], reviews |-> << >>]], rs, 1)

RECURSIVE SumSeq(_)
SumSeq(ns) == IF ns = << >> THEN 0 ELSE Head(ns) + SumSeq(Tail(ns))

\* how many reviews a product has under a key
CountUnder(buckets, key) == IF key \in DOMAIN buckets THEN Len(buckets[key]) ELSE 0

RECURSIVE CountAll(_, _)
CountAll(buckets, keys) ==
  IF keys = {} THEN 0
  ELSE LET key == CHOOSE k \in keys : TRUE
       IN  Len(buckets[key]) + CountAll(buckets, keys \ { key })

\* the sum of the counts of a distribution
RECURSIVE CountAllOf(_, _)
CountAllOf(dist, keys) ==
  IF keys = {} THEN 0
  ELSE LET key == CHOOSE k \in keys : TRUE
       IN  dist[key] + CountAllOf(dist, keys \ { key })

\* get_data_summary_from_organized (data.py 232-263), without the time stamp
GetDataSummaryFromOrganized(organized) ==
  [total_products |-> Len(organized),
   total_reviews |->
     SumSeq([i \in 1..Len(organized) |->
               CountAll(organized[i].reviews, DOMAIN organized[i].reviews)]),
   star_distribution |->
     [key \in UNION { DOMAIN organized[i].reviews : i \in 1..Len(organized) } |->
        SumSeq([i \in 1..Len(organized) |-> CountUnder(organized[i].reviews, key)])]]

\* save_to_json and save_to_csv write the file or raise
WriteOutcomes == { "ok", "raise" }

\* save_to_csv (data.py 59-87): nothing is written for empty data, and the path is
\* returned all the same
CsvWritten(data, csv) == data # << >> /\ csv = "ok"
CsvReturned(data, csv) == data = << >> \/ csv = "ok"

\* a faulty save_data, in which a failed JSON write ends the call
SaveDataJsonFirst(data, json, csv) ==
  [saved_files |-> IF json = "ok"
                   THEN { "json" } \cup (IF CsvReturned(data, csv) THEN { "csv" } ELSE {})
                   ELSE {},
   written     |-> IF json = "ok"
                   THEN { "json" } \cup (IF CsvWritten(data, csv) THEN { "csv" } ELSE {})
                   ELSE {}]

\* save_data (data.py 89-117) with format "both": the formats whose path is in
\* saved_files, and the formats whose file was written
SaveData(data, json, csv) ==
  [saved_files |-> (IF json = "ok" THEN { "json" } ELSE {})
                   \cup (IF CsvReturned(data, csv) THEN { "csv" } ELSE {}),
   written     |-> (IF json = "ok" THEN { "json" } ELSE {})
                   \cup (IF CsvWritten(data, csv) THEN { "csv" } ELSE {})]

\* lines 353-376: the lists are processed, organized, saved and summed up
FinishCrawl ==
  /\ pc = "cr_finish"
  /\ LET processed_products == ProcessProducts(products)
         processed_reviews  == ProcessReviews(all_reviews)
         organized == OrganizeProductsWithReviews(processed_products, processed_reviews)
         summary   == GetDataSummaryFromOrganized(organized)
     IN  /\ organized_data' = organized
         /\ \E json \in WriteOutcomes, csv \in WriteOutcomes :
              LET saved == SaveData(organized, json, csv)
              IN  /\ out_files' = out_files \cup saved.written
                  /\ result' = [products |-> processed_products,
                                reviews |-> processed_reviews,
                                summary |-> summary,
                                saved_files |-> saved.saved_files]
  /\ pc' = "done"
  /\ UNCHANGED << driver, catalog, site, top_count, max_pages, star_filter, products, pidx,
                  all_reviews, crawlLog >>
  /\ UNCHANGED << scrapeVars, walkVars, authVars, extractVars >>

(***************************************************************************)
(* Spec: crawl_amazon(keyword, top_count, star_filter, max_pages) with the *)
(* default top_count and max_pages.                                        *)
(***************************************************************************)
CrawlStarFilters == { << >>, << 5 >> }

CrawlCatalog == { ProductDp, ProductGp, ProductNoUrl }

Init ==
  /\ pc = "cr_search"
  /\ driver = "none"
  /\ catalog = CrawlCatalog
  /\ site = CrawlSite
  /\ organized_data = << >> /\ out_files = {}
  /\ top_count = DefaultTopCount
  /\ max_pages = DefaultMaxPages
  /\ star_filter \in CrawlStarFilters
  /\ products = << >> /\ pidx = 0 /\ all_reviews = << >> /\ result = None
  /\ crawlLog = << >>
  /\ IdleScrape /\ IdleWalk /\ IdleAuth /\ IdleExtract

Next ==
  \/ SearchProducts
  \/ ProductLoop
  \/ CollectReviews
  \/ FinishCrawl
  \/ ScrapeStep

Spec == Init /\ [][Next]_vars

(***************************************************************************)
(* SpecScenario: crawl_amazon for the first product of the listing and the *)
(* first page of its reviews, without a rating filter or with the ratings  *)
(* 4 and 5, on a site whose pages hold 0, 2, 3 or 5 review elements.       *)
(***************************************************************************)
ScenarioPageSizes == { 0, 2, 3, 5 }

ScenarioSite ==
  [elements |-> ElementCounts(ScenarioPageSizes), stars |-> { StarText(5), StarText(3) }]

ScenarioStarFilters == { << >>, << 4, 5 >> }

InitScenario ==
  /\ pc = "cr_search"
  /\ driver = "none"
  /\ catalog = { ProductDp }
  /\ site = ScenarioSite
  /\ organized_data = << >> /\ out_files = {}
  /\ top_count = 1
  /\ max_pages = 1
  /\ star_filter \in ScenarioStarFilters
  /\ products = << >> /\ pidx = 0 /\ all_reviews = << >> /\ result = None
  /\ crawlLog = << >>
  /\ IdleScrape /\ IdleWalk /\ IdleAuth /\ IdleExtract

SpecScenario == InitScenario /\ [][Next]_vars

(***************************************************************************)
(* SpecOrder: crawl_amazon for the first two products of the listing, with *)
(* the ratings 4 and 5 asked for and the default max_pages.                *)
(***************************************************************************)
InitOrder ==
  /\ pc = "cr_search"
  /\ driver = "none"
  /\ catalog = { ProductDp }
  /\ site = CrawlSite
  /\ organized_data = << >> /\ out_files = {}
  /\ top_count = 2
  /\ max_pages = DefaultMaxPages
  /\ star_filter = << 4, 5 >>
  /\ products = << >> /\ pidx = 0 /\ all_reviews = << >> /\ result = None
  /\ crawlLog = << >>
  /\ IdleScrape /\ IdleWalk /\ IdleAuth /\ IdleExtract

SpecOrder == InitOrder /\ [][Next]_vars

(***************************************************************************)
(* SpecFinish: crawl_amazon from line 353 on, after a product loop that    *)
(* left up to MaxFinishProducts products and up to MaxFinishReviews        *)
(* reviews of each; the observations of the loop are left out.             *)
(***************************************************************************)
\* two products of one title, and one whose reviews cannot be asked for
FinishCatalog == { ProductDp, ProductDpLong, ProductGp }

\* the rating texts review elements can carry: two ratings, a rating above 5, a
\* rating written with a comma; NoAttr when the rating element is missing
FinishStarTexts ==
  { StarText(4), StarText(5),
    << "1", "0" >>,
    << "4", ",", "0", " ", "v", "o", "n", " ", "5" >>,
    NoAttr }

\* what scrape_reviews can have returned for a product: nothing when no ASIN can be
\* derived from its address, else the reviews of the first page of its listing
ScrapedReviews(product) ==
  IF ~HasDp(product.url) THEN { << >> }
  ELSE UNION
         { { [k \in 1..n |->
                [elem |-> [asin |-> Asin(product.url), listing |-> 0, page |-> 1,
                           pos |-> k],
                 star_rating |-> StarRating(texts[k])]] :
               texts \in [1..n -> FinishStarTexts] } :
           n \in 0..MaxFinishReviews }

\* the all_reviews the loop builds from what each product's scrape returned
RECURSIVE CollectAll(_, _, _)
CollectAll(ps, scraped, i) ==
  IF i = 0 THEN << >>
  ELSE Extend(CollectAll(ps, scraped, i - 1), Enrich(scraped[i], ps[i]))

InitFinish ==
  /\ pc = "cr_finish"
  /\ driver = "open"
  /\ catalog = FinishCatalog
  /\ site = CrawlSite
  /\ organized_data = << >> /\ out_files = {}
  /\ top_count = MaxFinishProducts
  /\ max_pages = 1
  /\ star_filter = << >>
  /\ \E n \in 1..MaxFinishProducts :
       \E ps \in [1..n -> FinishCatalog] :
         \E scraped \in [1..n -> UNION { ScrapedReviews(p) : p \in FinishCatalog }] :
           /\ \A i \in 1..n : scraped[i] \in ScrapedReviews(ps[i])
           /\ products = ps
           /\ pidx = n + 1
           /\ all_reviews = CollectAll(ps, scraped, n)
  /\ result = None
  /\ crawlLog = << >>
  /\ IdleScrape /\ IdleWalk /\ IdleAuth /\ IdleExtract

NextFinish == FinishCrawl

SpecFinish == InitFinish /\ [][NextFinish]_vars

(***************************************************************************)
(* SpecSearch: search_products(keyword, top_count) called on a result page *)
(* whose containers are known: site holds what find_elements_by_selectors  *)
(* returns, in listing order, each container with the record its           *)
(* extraction builds; crawlLog records the containers extracted, result    *)
(* whether an exception reached the except of search_products.             *)
(***************************************************************************)
\* product_elements[:top_count] (line 132)
TopSlice(elements, top) == SubSeq(elements, 1, Shown(Len(elements), top))

\* lines 131-143: extract_product_data on each element of the slice, in order; the
\* first extraction that raises ends the loop
RECURSIVE ExtractedUpTo(_, _, _)
ExtractedUpTo(slice, ex, i) ==
  IF i > Len(slice) \/ ex[i] = "raise" THEN i
  ELSE ExtractedUpTo(slice, ex, i + 1)

SearchProductsOn ==
  /\ pc = "ss_call"
  /\ \E out \in SearchOutcomes :
       LET slice == TopSlice(site.containers, top_count)
       IN  \E ex \in [1..Len(slice) -> { "ok", "raise" }] :
             LET stop == ExtractedUpTo(slice, ex, 1)
                 all_ok == out = "ok" /\ stop > Len(slice)
             IN  /\ driver' = IF out = "setup_raise" THEN "none" ELSE "open"
                 /\ crawlLog' = IF out = "ok"
                                THEN [k \in 1..Min(stop, Len(slice)) |-> slice[k].pos]
                                ELSE << >>
                 /\ products' = IF all_ok
                                THEN [k \in 1..Len(slice) |-> slice[k].data]
                                ELSE << >>
                 /\ result' = [raised |-> ~all_ok]
  /\ pc' = "ss_ret"
  /\ UNCHANGED << catalog, site, top_count, max_pages, star_filter, pidx, all_reviews,
                  organized_data, out_files >>
  /\ UNCHANGED << scrapeVars, walkVars, authVars, extractVars >>

InitSearch ==
  /\ pc = "ss_call"
  /\ driver \in { "none", "open" }
  /\ catalog = CrawlCatalog
  /\ \E n \in 0..MaxContainers :
       \E data \in [1..n -> CrawlCatalog] :
         site = [containers |-> [k \in 1..n |-> [pos |-> k, data |-> data[k]]]]
  /\ organized_data = << >> /\ out_files = {}
  /\ top_count \in 0..DefaultTopCount
  /\ max_pages = 0 /\ star_filter = << >>
  /\ products = << >> /\ pidx = 0 /\ all_reviews = << >> /\ result = None
  /\ crawlLog = << >>
  /\ IdleScrape /\ IdleWalk /\ IdleAuth /\ IdleExtract

NextSearch == SearchProductsOn

SpecSearch == InitSearch /\ [][NextSearch]_vars

(***************************************************************************)
(* SpecSave: save_data(data, filename, "both") called on its own, on the   *)
(* empty list or on organized products; organized_data holds the argument, *)
(* result the mapping returned and how each write went, out_files the      *)
(* files written.                                                          *)
(***************************************************************************)
SaveDataCall ==
  /\ pc = "sv_call"
  /\ \E json \in WriteOutcomes, csv \in WriteOutcomes :
       LET saved == SaveData(organized_data, json, csv)
       IN  /\ out_files' = saved.written
           /\ result' = [saved_files |-> saved.saved_files, json |-> json, csv |-> csv]
  /\ pc' = "sv_ret"
  /\ UNCHANGED << driver, catalog, site, top_count, max_pages, star_filter, products, pidx,
                  all_reviews, organized_data, crawlLog >>
  /\ UNCHANGED << scrapeVars, walkVars, authVars, extractVars >>

InitSave ==
  /\ pc = "sv_call"
  /\ driver = "none" /\ catalog = FinishCatalog /\ site = NoSite
  /\ top_count = 0 /\ max_pages = 0 /\ star_filter = << >>
  /\ \E n \in 0..MaxFinishProducts :
       \E ps \in [1..n -> FinishCatalog] :
         \E scraped \in [1..n -> UNION { ScrapedReviews(p) : p \in FinishCatalog }] :
           /\ \A i \in 1..n : scraped[i] \in ScrapedReviews(ps[i])
           /\ products = ps
           /\ pidx = n + 1
           /\ all_reviews = CollectAll(ps, scraped, n)
           /\ organized_data =
                OrganizeProductsWithReviews(ProcessProducts(ps),
                                            ProcessReviews(CollectAll(ps, scraped, n)))
  /\ out_files = {}
  /\ result = None
  /\ crawlLog = << >>
  /\ IdleScrape /\ IdleWalk /\ IdleAuth /\ IdleExtract

NextSave == SaveDataCall

SpecSave == InitSave /\ [][NextSave]_vars

(***************************************************************************)
(* SpecAuth: the operations of AuthManager, called in any order.           *)
(***************************************************************************)
InitAuth ==
  /\ drv_url = AMAZON_BASE_URL /\ drv_page = {} /\ jar = {}
  /\ cookie_file \in CookieFiles
  /\ au_op = "none" /\ au_ret = FALSE /\ au_calls = << >>
  /\ IdleCrawl /\ IdleScrape /\ IdleWalk /\ IdleExtract

NextAuth ==
  \/ CheckSessionStatus
  \/ LoadCookies
  \/ RefreshSession
  \/ ManualLogin
  \/ SmartLogin

SpecAuth == InitAuth /\ [][NextAuth]_vars

(***************************************************************************)
(* DataExtractor on one element (src/src/utils.py 23-243).                 *)
(* Text is a sequence of characters; an attribute that is absent is None.  *)
(***************************************************************************)
\* the texts an element can carry: empty, blank, a number, a padded number, a word,
\* a padded word, a number and a word
Texts ==
  { << >>, << " " >>, << "4" >>, << " ", "4", " " >>, << "x" >>, << "x", " " >>,
    << "4", " ", "x" >> }

Attrs == Texts \cup { NoAttr }

\* `len(text) < 200` (utils.py 237)
TitleLimit == 200

\* a text of exactly TitleLimit characters
LongText == [k \in 1..TitleLimit |-> "x"]

\* the keys of the two records, in the order they are assigned
ProductFields == << "title", "price", "rating", "url" >>
ReviewFields ==
  << "review_text", "star_rating", "review_date", "reviewer_nickname", "review_title" >>

Fields(kind) == IF kind = "product" THEN ProductFields ELSE ReviewFields

\* the extractor each key is assigned from (utils.py 42-51, 68-84)
Extractor(field) ==
  CASE field \in { "title", "price", "review_text", "review_date" }
         -> "_extract_text_by_selectors"
    [] field = "rating" -> "_extract_product_rating"
    [] field = "url" -> "_extract_product_url"
    [] field = "star_rating" -> "_extract_rating"
    [] field = "reviewer_nickname" -> "_extract_reviewer_name"
    [] field = "review_title" -> "_extract_review_title"

\* the selectors that extractor walks for the key
Chain(field) ==
  CASE field = "title" -> SELECTORS.product_title
    [] field = "price" -> SELECTORS.product_price
    [] field = "rating" -> SELECTORS.product_rating
    [] field = "url" -> SELECTORS.product_url
    [] field = "review_text" -> SELECTORS.review_text
    [] field = "star_rating" -> << "[data-hook=review-star-rating]" >>
    [] field = "review_date" -> SELECTORS.review_date
    [] field = "reviewer_nickname" -> SELECTORS.reviewer_name
    [] field = "review_title" -> SELECTORS.review_title

\* product_data as created (utils.py 34-39) and review_data as created (line 65)
NAUrl == << NA >>

EmptyRecord(kind) ==
  IF kind = "product"
  THEN [f \in { "title", "price", "rating", "url" } |->
          IF f = "url" THEN NAUrl ELSE NAText]
  ELSE [f \in {} |-> NAText]

\* dict[key] = value
SetKey(rec, key, value) ==
  [f \in DOMAIN rec \cup { key } |-> IF f = key THEN value ELSE rec[f]]

\* what one find_element on the scope can do: raise NoSuchElementException, raise
\* anything else (the lookup, or a read of the element it found), or yield an element
Missing == [kind |-> "missing"]
Failing == [kind |-> "error"]
Element(text, aria_label, textContent, href) ==
  [kind |-> "found", text |-> text, aria_label |-> aria_label,
   textContent |-> textContent, href |-> href]

\* addresses an anchor can carry: a product page by /dp/, one by /gp/product/, a
\* search page, and sponsored wrappers
SspaRelative == AMAZON_BASE_URL \o << "sspa", "click?url=%2FSome-Mouse%2Fdp%2FB02" >>
SspaAbsolute ==
  AMAZON_BASE_URL \o << "sspa", "click?url=https%3A%2F%2Fwww.amazon.com%2Fdp%2FB04" >>
SspaNoTarget == AMAZON_BASE_URL \o << "sspa", "click?ie=UTF8" >>
SspaSearch == AMAZON_BASE_URL \o << "sspa", "click?url=%2Fs%3Fk%3Dmouse" >>

Hrefs ==
  { AMAZON_BASE_URL \o << "dp", "B01" >>,
    AMAZON_BASE_URL \o << "gp", "product", "B03" >>,
    AMAZON_BASE_URL \o << "s?k=mouse" >>,
    SspaRelative, SspaAbsolute, SspaNoTarget, SspaSearch }

\* `'/gp/product/' in href`
HasGpProduct(url) ==
  \E i \in 2..(Len(url) - 2) : url[i] = "gp" /\ url[i + 1] = "product"

\* line 128, 155, 163
IsProductPath(url) == HasDp(url) \/ HasGpProduct(url)

\* `'sspa/click' in href`
IsSspaClick(url) ==
  \E i \in 1..(Len(url) - 1) :
    /\ url[i] = "sspa"
    /\ url[i + 1] \in { "click?url=%2FSome-Mouse%2Fdp%2FB02",
                        "click?url=https%3A%2F%2Fwww.amazon.com%2Fdp%2FB04",
                        "click?ie=UTF8", "click?url=%2Fs%3Fk%3Dmouse" }

\* urlparse, parse_qs and unquote (lines 148-153): the decoded value of the url
\* parameter, cut at its slashes; NoAttr when the query has no such parameter
DecodedTarget(url) ==
  LET q == url[Len(url)]
  IN  CASE q = "click?url=%2FSome-Mouse%2Fdp%2FB02" -> << "", "Some-Mouse", "dp", "B02" >>
        [] q = "click?url=https%3A%2F%2Fwww.amazon.com%2Fdp%2FB04"
             -> << "https://www.amazon.com", "dp", "B04" >>
        [] q = "click?url=%2Fs%3Fk%3Dmouse" -> << "", "s?k=mouse" >>
        [] OTHER -> NoAttr

\* the lookups each extractor can meet on one selector
TextLookups == { Missing, Failing } \cup { Element(t, NoAttr, NoAttr, NoAttr) : t \in Texts }

RatingLookups ==
  { Missing, Failing }
    \cup { Element(t, a, c, NoAttr) : t \in Texts, a \in Attrs, c \in Attrs }

StarLookups == { Missing, Failing } \cup { Element(<< >>, NoAttr, c, NoAttr) : c \in Attrs }

HrefLookups ==
  { Missing, Failing }
    \cup { Element(<< >>, NoAttr, NoAttr, h) : h \in Hrefs \cup { NoAttr } }

\* what find_elements on the scope returns: up to MaxScan values, or it raises (as
\* a read of one of the elements may)
Scans(values) ==
  { [raised |-> TRUE, items |-> << >>] }
    \cup { [raised |-> FALSE, items |-> items] :
             items \in UNION { [1..n -> values] : n \in 0..MaxScan } }

\* whether the element is a fixed snapshot, which answers a selector the same way
\* every time; otherwise each lookup is answered by anything it can meet
HasSnapshot == "dom" \in DOMAIN site

\* a faulty lookup, which finds nothing once the element has been read through
LookupStale(all) ==
  IF HasSnapshot
  THEN IF pc = "ex_second" THEN { Missing } ELSE { site.dom[ex_field][ex_i] }
  ELSE all

\* element.find_element(By.CSS_SELECTOR, selector) (utils.py 101, 130, 181, 203, 213,
\* 229) for the selector at hand
Lookup(all) == IF HasSnapshot THEN { site.dom[ex_field][ex_i] } ELSE all

\* element.find_elements (utils.py 142, 235) for the extractor at hand
Scan(all) == IF HasSnapshot THEN { site.scan[ex_field] } ELSE all

\* a faulty end of the loop, which returns None
ExhaustedNone(field) == NoAttr

\* `return "N/A"` when the loop is over (lines 107, 170, 197, 218, 243)
Exhausted(field) == IF field = "url" THEN NAUrl ELSE NAText

\* the extractor returns, after a scan that read the anchors `seen`
ExReturnSeen(value, src, seen) ==
  /\ ex_state' = "returned"
  /\ ex_val' = value
  /\ ex_src' = src
  /\ ex_seen' = seen

\* the extractor returns
ExReturn(value, src) == ExReturnSeen(value, src, << >>)

\* the selector yielded nothing: the next one, or the return after the loop; an
\* extractor with a scan after its loop goes on to it
ExAdvance(scanAfter) ==
  IF ex_i < Len(Chain(ex_field)) \/ scanAfter
  THEN /\ ex_i' = ex_i + 1
       /\ UNCHANGED << ex_state, ex_val, ex_src, ex_seen >>
  ELSE /\ ExReturn(Exhausted(ex_field), "sentinel")
       /\ UNCHANGED ex_i

\* an exception leaves the extractor and extract_product_data / extract_review_data
ExRaise ==
  /\ ex_state' = "raised"
  /\ UNCHANGED << ex_i, ex_val, ex_src, ex_seen >>

ExRunning(extractor) ==
  /\ ex_state = "running"
  /\ Extractor(ex_field) = extractor

ExFrame ==
  /\ UNCHANGED << ex_kind, ex_rec, ex_field >>
  /\ UNCHANGED << crawlVars, scrapeVars, walkVars, authVars >>

\* _extract_text_by_selectors (utils.py 88-107): one turn of its loop; only
\* NoSuchElementException is caught
ExtractTextBySelectors ==
  /\ ExRunning("_extract_text_by_selectors")
  /\ \E o \in Lookup(TextLookups) :
       /\ ex_allMiss' = (ex_allMiss /\ o.kind = "missing")
       /\ IF o.kind = "error" THEN ExRaise
          ELSE IF o.kind = "found" /\ Strip(o.text) # << >>
          THEN ExReturn(Strip(o.text), "text") /\ UNCHANGED ex_i
          ELSE ExAdvance(FALSE)
  /\ ExFrame

\* lines 177-192: what one element yields as a product rating
RatingOf(o) ==
  LET rating_text == Strip(o.text)
  IN  IF rating_text # << >> /\ AnyDigit(rating_text)
      THEN [hit |-> TRUE, value |-> rating_text, src |-> "text"]
      ELSE IF Truthy(o.aria_label) /\ AnyDigit(o.aria_label)
      THEN [hit |-> TRUE, value |-> o.aria_label, src |-> "aria-label"]
      ELSE IF Truthy(o.textContent) /\ AnyDigit(o.textContent)
      THEN [hit |-> TRUE, value |-> Strip(o.textContent), src |-> "textContent"]
      ELSE [hit |-> FALSE, value |-> << >>, src |-> None]

\* _extract_product_rating (utils.py 172-197): one turn of its loop
ExtractProductRating ==
  /\ ExRunning("_extract_product_rating")
  /\ \E o \in Lookup(RatingLookups) :
       /\ ex_allMiss' = (ex_allMiss /\ o.kind = "missing")
       /\ IF o.kind = "found" /\ RatingOf(o).hit
          THEN ExReturn(RatingOf(o).value, RatingOf(o).src) /\ UNCHANGED ex_i
          ELSE ExAdvance(FALSE)
  /\ ExFrame

\* _extract_rating (utils.py 199-206): split()[0] of the textContent; IndexError on
\* a blank text is caught like everything else
ExtractRating ==
  /\ ExRunning("_extract_rating")
  /\ \E o \in Lookup(StarLookups) :
       /\ ex_allMiss' = (ex_allMiss /\ o.kind = "missing")
       /\ IF o.kind = "found" /\ Truthy(o.textContent) /\ FirstToken(o.textContent) # << >>
          THEN ExReturn(FirstToken(o.textContent), "textContent")
          ELSE ExReturn(Exhausted(ex_field), "sentinel")
       /\ UNCHANGED ex_i
  /\ ExFrame

\* _extract_reviewer_name (utils.py 208-218): one turn of its loop
ExtractReviewerName ==
  /\ ExRunning("_extract_reviewer_name")
  /\ \E o \in Lookup(TextLookups) :
       /\ ex_allMiss' = (ex_allMiss /\ o.kind = "missing")
       /\ IF o.kind = "found" /\ Strip(o.text) # << >>
          THEN ExReturn(Strip(o.text), "text") /\ UNCHANGED ex_i
          ELSE ExAdvance(FALSE)
  /\ ExFrame

\* lines 235-239: the first descendant whose stripped text is not empty and shorter
\* than the limit; << >> when there is none
RECURSIVE FirstShortText(_)
FirstShortText(texts) ==
  IF texts = << >> THEN << >>
  ELSE IF Strip(Head(texts)) # << >> /\ Len(Strip(Head(texts))) < TitleLimit
  THEN Strip(Head(texts))
  ELSE FirstShortText(Tail(texts))

\* _extract_review_title (utils.py 220-243): one turn of its loop, or, after the
\* loop, the scan of every descendant
ExtractReviewTitle ==
  /\ ExRunning("_extract_review_title")
  /\ IF ex_i <= Len(Chain(ex_field))
     THEN \E o \in Lookup(TextLookups) :
            /\ ex_allMiss' = (ex_allMiss /\ o.kind = "missing")
            /\ IF o.kind = "found" /\ Strip(o.text) # << >>
               THEN ExReturn(Strip(o.text), "text") /\ UNCHANGED ex_i
               ELSE ExAdvance(TRUE)
     ELSE \E scan \in Scan(Scans(Texts \cup { LongText })) :
            /\ IF ~scan.raised /\ FirstShortText(scan.items) # << >>
               THEN ExReturn(FirstShortText(scan.items), "descendant")
               ELSE ExReturn(Exhausted(ex_field), "sentinel")
            /\ UNCHANGED << ex_i, ex_allMiss >>
  /\ ExFrame

\* a faulty scan, which returns a wrapper as it is
RECURSIVE FirstLinkAsIs(_)
FirstLinkAsIs(hrefs) ==
  IF hrefs = << >> THEN NoAttr
  ELSE IF Truthy(Head(hrefs)) /\ (IsSspaClick(Head(hrefs)) \/ IsProductPath(Head(hrefs)))
  THEN Head(hrefs)
  ELSE FirstLinkAsIs(Tail(hrefs))

\* lines 142-165: the first anchor that unwraps to, or is, a product address;
\* NoAttr when there is none
RECURSIVE FirstProductLink(_)
FirstProductLink(hrefs) ==
  IF hrefs = << >> THEN NoAttr
  ELSE LET href == Head(hrefs)
       IN  IF Truthy(href) /\ IsSspaClick(href)
           THEN IF DecodedTarget(href) # NoAttr /\ IsProductPath(DecodedTarget(href))
                THEN DecodedTarget(href)
                ELSE FirstProductLink(Tail(hrefs))
           ELSE IF Truthy(href) /\ IsProductPath(href)
           THEN href
           ELSE FirstProductLink(Tail(hrefs))

\* _extract_product_url (utils.py 109-170): one turn of its loop, or, after the
\* loop, the scan of every anchor
ExtractProductUrl ==
  /\ ExRunning("_extract_product_url")
  /\ IF ex_i <= Len(Chain(ex_field))
     THEN \E o \in Lookup(HrefLookups) :
            /\ ex_allMiss' = (ex_allMiss /\ o.kind = "missing")
            /\ IF o.kind = "found" /\ Truthy(o.href) /\ IsProductPath(o.href)
               THEN ExReturn(o.href, "direct") /\ UNCHANGED ex_i
               ELSE ExAdvance(TRUE)
     ELSE \E scan \in Scan(Scans(Hrefs \cup { NoAttr })) :
            /\ IF ~scan.raised /\ FirstProductLink(scan.items) # NoAttr
               THEN ExReturnSeen(FirstProductLink(scan.items), "anchor", scan.items)
               ELSE ExReturnSeen(Exhausted(ex_field), "sentinel", scan.items)
            /\ UNCHANGED << ex_i, ex_allMiss >>
  /\ ExFrame

\* the key after `field` in the record being built
NextField(kind, field) ==
  LET fs == Fields(kind)
      i == CHOOSE j \in 1..Len(fs) : fs[j] = field
  IN  fs[i + 1]

LastField(kind) == Fields(kind)[Len(Fields(kind))]

\* extract_product_data / extract_review_data: the value is stored under its key and
\* the next extractor called; after the last key the record is returned
StoreField ==
  /\ ex_state = "returned"
  /\ ex_rec' = SetKey(ex_rec, ex_field, ex_val)
  /\ IF ex_field = LastField(ex_kind)
     THEN /\ ex_state' = "built"
          /\ ex_i' = 0
          /\ UNCHANGED ex_field
     ELSE /\ ex_state' = "running"
          /\ ex_field' = NextField(ex_kind, ex_field)
          /\ ex_i' = 1
  /\ ex_val' = << >>
  /\ ex_src' = None
  /\ ex_allMiss' = TRUE
  /\ ex_seen' = << >>
  /\ UNCHANGED ex_kind
  /\ UNCHANGED << crawlVars, scrapeVars, walkVars, authVars >>

(***************************************************************************)
(* SpecExtract: extract_product_data or extract_review_data called on one  *)
(* element.                                                                *)
(***************************************************************************)
InitExtract ==
  /\ ex_kind \in { "product", "review" }
  /\ ex_rec = EmptyRecord(ex_kind)
  /\ ex_field = Fields(ex_kind)[1]
  /\ ex_i = 1
  /\ ex_state = "running"
  /\ ex_val = << >>
  /\ ex_src = None
  /\ ex_allMiss = TRUE
  /\ ex_seen = << >>
  /\ IdleCrawl /\ IdleScrape /\ IdleWalk /\ IdleAuth

NextExtract ==
  \/ ExtractTextBySelectors
  \/ ExtractProductRating
  \/ ExtractProductUrl
  \/ ExtractRating
  \/ ExtractReviewerName
  \/ ExtractReviewTitle
  \/ StoreField

SpecExtract == InitExtract /\ [][NextExtract]_vars

(***************************************************************************)
(* SpecTwice: extract_product_data or extract_review_data called twice on  *)
(* one element whose snapshot does not change: site holds the snapshot,    *)
(* result what the first call gave.                                        *)
(***************************************************************************)
\* an element with a padded text, and one with blank texts and no address
RealElement ==
  Element(<< " ", "4", " " >>, NoAttr, << "4", " ", "x" >>, AMAZON_BASE_URL \o << "dp", "B01" >>)
BlankElement == Element(<< " " >>, NoAttr, << " " >>, NoAttr)

\* what the selectors of a key find in the snapshot: nothing; an element by the
\* first selector; a blank element by the first and an element by the last; or the
\* first lookup fails
SnapChain(field, v) ==
  [i \in 1..Len(Chain(field)) |->
     CASE v = 1 -> Missing
       [] v = 2 -> IF i = 1 THEN RealElement ELSE Missing
       [] v = 3 -> IF i = 1 THEN BlankElement
                   ELSE IF i = Len(Chain(field)) THEN RealElement ELSE Missing
       [] OTHER -> IF i = 1 THEN Failing ELSE Missing]

\* the keys whose extractor scans the element after its selectors
ScanFields == { "url", "review_title" }

\* what the scan of the snapshot yields: it raises; nothing; or two descendants
SnapScan(field, v) ==
  CASE v = 1 \/ field \notin ScanFields -> [raised |-> TRUE, items |-> << >>]
    [] v = 2 -> [raised |-> FALSE, items |-> << >>]
    [] OTHER -> [raised |-> FALSE,
                 items |-> IF field = "url" THEN << SspaSearch, SspaRelative >>
                           ELSE << << " " >>, << "x", " " >> >>]

FieldSet(kind) == { Fields(kind)[i] : i \in 1..Len(Fields(kind)) }

\* the first call is over: what it gave is kept and the same call made again, with
\* a record and a selector index of its own
ExtractAgain ==
  /\ pc = "ex_first"
  /\ ex_state \in { "built", "raised" }
  /\ result' = [rec |-> ex_rec, state |-> ex_state]
  /\ pc' = "ex_second"
  /\ ex_rec' = EmptyRecord(ex_kind)
  /\ ex_field' = Fields(ex_kind)[1]
  /\ ex_i' = 1
  /\ ex_state' = "running"
  /\ ex_val' = << >>
  /\ ex_src' = None
  /\ ex_allMiss' = TRUE
  /\ ex_seen' = << >>
  /\ UNCHANGED ex_kind
  /\ UNCHANGED << driver, catalog, site, top_count, max_pages, star_filter, products, pidx,
                  all_reviews, organized_data, out_files, crawlLog >>
  /\ UNCHANGED << scrapeVars, walkVars, authVars >>

InitTwice ==
  /\ pc = "ex_first"
  /\ ex_kind \in { "product", "review" }
  /\ \E v \in [FieldSet(ex_kind) -> 1..4], w \in [FieldSet(ex_kind) -> 1..3] :
       /\ \A f \in FieldSet(ex_kind) : f \notin ScanFields => w[f] = 1
       /\ site = [dom  |-> [f \in FieldSet(ex_kind) |-> SnapChain(f, v[f])],
                  scan |-> [f \in FieldSet(ex_kind) |-> SnapScan(f, w[f])]]
  /\ driver = "open" /\ catalog = {}
  /\ organized_data = << >> /\ out_files = {}
  /\ top_count = 0 /\ max_pages = 0 /\ star_filter = << >>
  /\ products = << >> /\ pidx = 0 /\ all_reviews = << >> /\ result = None
  /\ crawlLog = << >>
  /\ ex_rec = EmptyRecord(ex_kind)
  /\ ex_field = Fields(ex_kind)[1]
  /\ ex_i = 1
  /\ ex_state = "running"
  /\ ex_val = << >>
  /\ ex_src = None
  /\ ex_allMiss = TRUE
  /\ ex_seen = << >>
  /\ IdleScrape /\ IdleWalk /\ IdleAuth

NextTwice ==
  \/ ExtractTextBySelectors
  \/ ExtractProductRating
  \/ ExtractProductUrl
  \/ ExtractRating
  \/ ExtractReviewerName
  \/ ExtractReviewTitle
  \/ StoreField
  \/ ExtractAgain

SpecTwice == InitTwice /\ [][NextTwice]_vars

(***************************************************************************)
(* SpecLife: the lifetime of one AmazonCrawler and of its driver, under    *)
(* the with statement (crawler.py 384-393) and under main (main.py 61-159).*)
(* crawlLog records what was done with the driver, in order.               *)
(***************************************************************************)
\* setup_driver (crawler.py 64-93): it returns; webdriver.Chrome raises and
\* self.driver stays None; or a statement after `self.driver = ...` raises. The
\* except re-raises in both cases
DriverSetups == { "ok", "no_driver", "half" }

\* self.driver after setup_driver
DriverAfter(setup) == IF setup = "no_driver" THEN "none" ELSE "open"

\* the operations a lifetime runs on the driver
LifeOps == { "search_products", "scrape_reviews" }

\* how an operation ends: it returns, raises, or the operator interrupts it
OpOutcomes == { "returned", "raised", "interrupted" }

\* __enter__ (crawler.py 384-389): setup_driver when there is no driver; what it
\* raises leaves the with statement before the body, and __exit__ is not run
Enter ==
  /\ pc = "cm_enter"
  /\ \E setup \in DriverSetups :
       /\ driver' = DriverAfter(setup)
       /\ crawlLog' = Append(crawlLog, [status |-> "setup_driver", driver |-> DriverAfter(setup)])
       /\ pc' = IF setup = "ok" THEN "cm_body" ELSE "lf_end"
  /\ UNCHANGED << catalog, site, top_count, max_pages, star_filter, products, pidx,
                  all_reviews, organized_data, out_files, result >>
  /\ UNCHANGED << scrapeVars, walkVars, authVars, extractVars >>

\* where the body of the with statement, or the try of main, leaves to
LeavePc == IF pc = "cm_body" THEN "cm_exit" ELSE "main_finally"

\* one operation of the body: `if not self.driver: self.setup_driver()` inside the
\* try of the operation (crawler.py 106-108, 161-163), then the driver is used
UseDriver ==
  /\ pc \in { "cm_body", "main_try" }
  /\ Len(crawlLog) < MaxOps + 1
  /\ \E op \in LifeOps, setup \in DriverSetups, out \in OpOutcomes :
       LET after == IF driver = "none" THEN DriverAfter(setup) ELSE driver
       IN  /\ driver' = after
           /\ crawlLog' = Append(crawlLog, [status |-> op, driver |-> after])
           /\ pc' = IF out = "returned" THEN pc ELSE LeavePc
  /\ UNCHANGED << catalog, site, top_count, max_pages, star_filter, products, pidx,
                  all_reviews, organized_data, out_files, result >>
  /\ UNCHANGED << scrapeVars, walkVars, authVars, extractVars >>

\* the body of the with statement, or the try of main, runs to its end
Complete ==
  /\ pc \in { "cm_body", "main_try" }
  /\ pc' = LeavePc
  /\ UNCHANGED << driver, catalog, site, top_count, max_pages, star_filter, products, pidx,
                  all_reviews, organized_data, out_files, result, crawlLog >>
  /\ UNCHANGED << scrapeVars, walkVars, authVars, extractVars >>

\* close (crawler.py 378-382), from __exit__ (391-393) or from the finally of main
\* (main.py 158-159): quit when there is a driver; self.driver is left as it is
Close ==
  /\ pc \in { "cm_exit", "main_finally" }
  /\ IF driver # "none"
     THEN /\ driver' = "closed"
          /\ crawlLog' = Append(crawlLog, [status |-> "quit", driver |-> "closed"])
     ELSE UNCHANGED << driver, crawlLog >>
  /\ pc' = "lf_end"
  /\ UNCHANGED << catalog, site, top_count, max_pages, star_filter, products, pidx,
                  all_reviews, organized_data, out_files, result >>
  /\ UNCHANGED << scrapeVars, walkVars, authVars, extractVars >>

InitLife ==
  /\ pc \in { "cm_enter", "main_try" }
  /\ driver = "none" /\ catalog = {} /\ site = NoSite
  /\ organized_data = << >> /\ out_files = {}
  /\ top_count = 0 /\ max_pages = 0 /\ star_filter = << >>
  /\ products = << >> /\ pidx = 0 /\ all_reviews = << >> /\ result = None
  /\ crawlLog = << >>
  /\ IdleScrape /\ IdleWalk /\ IdleAuth /\ IdleExtract

NextLife ==
  \/ Enter
  \/ UseDriver
  \/ Complete
  \/ Close

SpecLife == InitLife /\ [][NextLife]_vars

(***************************************************************************)
(* SpecMain: one run of main (main.py 61-159) from the search on: the      *)
(* products are scraped page by page, the reviews saved as JSON and as     *)
(* CSV, and the driver closed in the finally. The operator may interrupt   *)
(* the run once, between two of these steps. crawlLog records the writes,  *)
(* the interrupt and the quit, in order.                                   *)
(***************************************************************************)
MainCatalog == { ProductDp, ProductGp }

\* a review of the page scraped, as main enriches it (lines 131-134)
MainReview == [product |-> pidx, page |-> page + 1]

\* the steps of the try between which the interrupt can arrive
MainSteps == { "mn_search", "mn_scrape", "mn_save_json", "mn_save_csv" }

\* whether the operator has interrupted the run
Interrupted == \E i \in 1..Len(crawlLog) : crawlLog[i].status = "interrupt"

\* a faulty handler, which prints and lets the run go on
InterruptPcSwallowed == pc

\* `except KeyboardInterrupt` (lines 154-155) prints, and the finally follows
InterruptPc == "main_finally"

\* KeyboardInterrupt is raised in the try, between two steps
Interrupt ==
  /\ pc \in MainSteps
  /\ ~Interrupted
  /\ crawlLog' = Append(crawlLog, [status |-> "interrupt", driver |-> driver])
  /\ pc' = InterruptPc
  /\ UNCHANGED << driver, catalog, site, top_count, max_pages, star_filter, products, pidx,
                  all_reviews, organized_data, out_files, result >>
  /\ UNCHANGED << scrapeVars, walkVars, authVars, extractVars >>

\* lines 99-105: search_products, and `return` when it gave nothing
MainSearch ==
  /\ pc = "mn_search"
  /\ \E setup \in DriverSetups, n \in 0..top_count :
       \E found \in [1..n -> catalog] :
         /\ driver' = DriverAfter(setup)
         /\ products' = IF setup = "ok" THEN found ELSE << >>
         /\ IF setup = "ok" /\ n > 0
            THEN pidx' = 1 /\ pc' = "mn_scrape"
            ELSE pidx' = 0 /\ pc' = "main_finally"
  /\ UNCHANGED << catalog, site, top_count, max_pages, star_filter, all_reviews,
                  organized_data, out_files, result, crawlLog >>
  /\ UNCHANGED << scrapeVars, walkVars, authVars, extractVars >>

\* lines 119-136: one page of the reviews of product pidx is scraped; after the last
\* page of the last product, `if all_reviews` (line 139)
MainScrapePage ==
  /\ pc = "mn_scrape"
  /\ \E n \in 0..1, more \in BOOLEAN :
       LET got == IF n = 0 THEN all_reviews ELSE Append(all_reviews, MainReview)
           next_page == more /\ page + 1 < max_pages
           last == ~next_page /\ pidx = Len(products)
       IN  /\ all_reviews' = got
           /\ page' = IF next_page THEN page + 1 ELSE 0
           /\ pidx' = IF next_page THEN pidx ELSE pidx + 1
           /\ pc' = IF ~last THEN "mn_scrape"
                    ELSE IF got # << >> THEN "mn_save_json" ELSE "main_finally"
  /\ UNCHANGED << driver, catalog, site, top_count, max_pages, star_filter, products,
                  organized_data, out_files, result, crawlLog >>
  /\ UNCHANGED << scrapeVars, authVars, extractVars >>
  /\ UNCHANGED << walk_reviews, site_listing, site_page, pagesScraped, clicks, lookups >>

\* lines 142-150: one format is written; what the write raises is caught by
\* `except Exception` (line 156), and the finally follows
MainSave(format, then) ==
  \E write \in WriteOutcomes :
    IF write = "ok"
    THEN /\ out_files' = out_files \cup { format }
         /\ crawlLog' = Append(crawlLog, [status |-> "write", driver |-> driver])
         /\ pc' = then
    ELSE /\ pc' = "main_finally"
         /\ UNCHANGED << out_files, crawlLog >>

MainSaveJson ==
  /\ pc = "mn_save_json"
  /\ MainSave("json", "mn_save_csv")
  /\ UNCHANGED << driver, catalog, site, top_count, max_pages, star_filter, products, pidx,
                  all_reviews, organized_data, result >>
  /\ UNCHANGED << scrapeVars, walkVars, authVars, extractVars >>

MainSaveCsv ==
  /\ pc = "mn_save_csv"
  /\ MainSave("csv", "main_finally")
  /\ UNCHANGED << driver, catalog, site, top_count, max_pages, star_filter, products, pidx,
                  all_reviews, organized_data, result >>
  /\ UNCHANGED << scrapeVars, walkVars, authVars, extractVars >>

InitMain ==
  /\ pc = "mn_search"
  /\ driver = "none" /\ catalog = MainCatalog /\ site = NoSite
  /\ organized_data = << >> /\ out_files = {}
  /\ top_count = MaxMainProducts /\ max_pages = DefaultMaxPages /\ star_filter = << >>
  /\ products = << >> /\ pidx = 0 /\ all_reviews = << >> /\ result = None
  /\ crawlLog = << >>
  /\ IdleScrape /\ IdleWalk /\ IdleAuth /\ IdleExtract

NextMain ==
  \/ MainSearch
  \/ MainScrapePage
  \/ MainSaveJson
  \/ MainSaveCsv
  \/ Interrupt
  \/ Close

SpecMain == InitMain /\ [][NextMain]_vars

(***************************************************************************)
(* Properties.                                                             *)
(***************************************************************************)

\* C1 (SpecScrape): a walk of _scrape_review_pages scrapes at most max_pages pages,
\* whatever the next-page control does: the loop index never passes max_pages, a page
\* is scraped only while it is below max_pages, and at most max_pages - 1 clicks are
\* made.
C1_PageCap ==
  /\ pagesScraped <= max_pages
  /\ page <= max_pages
  /\ (pc = "wk_scrape" => page < max_pages /\ pagesScraped = page)
  /\ (max_pages > 0 => clicks <= max_pages - 1)

\* C1: a walk that found the control enabled and clickable after every page but the
\* last, and stopped after max_pages pages
C1_Witness ==
  /\ pc = "wk_return"
  /\ max_pages = MaxPages
  /\ pagesScraped = max_pages
  /\ clicks = max_pages - 1
  /\ clicks >= 1

\* C2 (SpecExtract): no exception leaves a field extractor: the record is always
\* built.
C2_NoExceptionEscapes == ex_state # "raised"

\* C3 (SpecExtract): when every selector of the chain finds no element the extractor
\* returns "N/A", except that _extract_review_title then returns the first non-empty
\* text shorter than 200 characters among the element's descendants and
\* _extract_product_url the first product address among its anchors, each "N/A" when
\* that scan yields none; the value is never None and no exception is raised.
C3_SentinelOrScan ==
  /\ (ex_state = "returned" /\ ex_allMiss) =>
       \/ ex_val = (IF ex_field = "url" THEN NAUrl ELSE NAText)
       \/ /\ ex_field = "review_title" /\ ex_src = "descendant"
          /\ ex_val # << >> /\ Strip(ex_val) = ex_val /\ Len(ex_val) < TitleLimit
       \/ /\ ex_field = "url" /\ ex_src = "anchor"
          /\ IsProductPath(ex_val)
  /\ (ex_allMiss => ex_state # "raised")
  /\ (ex_state = "returned" => ex_val # NoAttr)

\* C3: every selector of the review title chain found no element, the scan of the
\* descendants ran and yielded no title either
C3_Witness ==
  /\ ex_state = "returned"
  /\ ex_allMiss
  /\ ex_field = "review_title"
  /\ ex_i = Len(SELECTORS.review_title) + 1
  /\ ex_val = NAText

\* C3 as stated, for the text, rating, reviewer name and review title extractors:
\* when every selector of the chain finds no element the extractor returns "N/A".
C3_AlwaysSentinel ==
  (ex_state = "returned" /\ ex_allMiss /\ ex_field # "url") => ex_val = NAText

\* C4 (SpecExtract): every value other than "N/A" returned for a text field, the
\* product rating or the review star rating is non-empty and has no leading or
\* trailing whitespace.
C4_ValuesTrimmed ==
  (ex_state = "returned" /\ ex_field # "url" /\ ex_val # NAText) =>
    (ex_val # << >> /\ Strip(ex_val) = ex_val)

\* whether the last operation of AuthManager went through _is_logged_in
CalledIsLoggedIn == \E i \in 1..Len(au_calls) : au_calls[i] = "_is_logged_in"

\* C5 (SpecAuth): whenever _is_logged_in is evaluated with the driver on an address
\* that contains "signin" (in any letter case), it and the operation built on it
\* (check_session_status, load_cookies, manual login) return false, whatever the page
\* contains.
C5_SigninNeverLoggedIn ==
  /\ (CalledIsLoggedIn /\ Contains(Lower(drv_url), "signin")) => au_ret = FALSE
  /\ \A src \in PageSources, url \in Addresses :
       Contains(Lower(url), "signin") => ~IsLoggedIn(src, url)

\* C5: check_session_status landed on the sign-in address with a page that contains
\* a login indicator, and returned false
C5_Witness ==
  /\ au_op = "check_session_status"
  /\ CalledIsLoggedIn
  /\ drv_url = AMAZON_LOGIN_URL
  /\ "Hello," \in drv_page
  /\ au_ret = FALSE

\* C6 (SpecAuth): recovery is two-tier: refresh_session returns false only after the
\* interactive login has been attempted too.
C6_TwoTierRecovery ==
  (au_op = "refresh_session" /\ au_ret = FALSE) =>
    \E i \in 1..Len(au_calls) : au_calls[i] = "manual_login_and_save_cookies"

\* the reviews that crawlLog says products 1..i handed to the crawl, enriched
RECURSIVE LoggedReviews(_)
LoggedReviews(i) ==
  IF i = 0 THEN << >>
  ELSE LoggedReviews(i - 1) \o Enrich(crawlLog[i].got, products[i])

\* C7 (Spec): a product whose session check reports expired and whose cookie reload
\* then succeeds is scraped like any other: scrape_reviews goes on to derive the
\* reviews address and to navigate to it, what it collects on the reviews page is
\* what it returns, and the crawl leaves no product unprocessed.
C7_RecoveredProductContinues ==
  /\ (sessLog.refresh = "ok" /\ pc = "sr_ret" /\ ~raised /\ HasDp(product_url)) =>
       (asin # None /\ vidx >= 1 /\ (success => ret = reviews))
  /\ \A i \in 1..Len(crawlLog) :
       (crawlLog[i].refresh = "ok" /\ ~crawlLog[i].raised /\ HasDp(products[i].url)) =>
         crawlLog[i].derived
  /\ (pc \in { "cr_finish", "done" } /\ products # << >>) => Len(crawlLog) = Len(products)

\* C7: a finished crawl of three products whose second product had its session
\* expired and restored, reached its reviews page and yielded reviews, and whose
\* third product was scraped too
C7_Witness ==
  /\ pc = "done"
  /\ Len(products) = 3
  /\ Len(crawlLog) = 3
  /\ crawlLog[1].check = "ok"
  /\ crawlLog[2].check = "expired" /\ crawlLog[2].refresh = "ok"
  /\ crawlLog[2].reached /\ Len(crawlLog[2].got) > 0
  /\ crawlLog[3].status = "scraped" /\ Len(crawlLog[3].got) > 0
  /\ Len(result.reviews) = Len(crawlLog[1].got) + Len(crawlLog[2].got) + Len(crawlLog[3].got)

\* C8 (Spec): a product whose session recovery fails contributes no review and raises
\* nothing; the crawl's reviews are exactly those the other products returned, in
\* order, each from its own product's listing; and the crawl runs to its end over
\* every product.
C8_FailedRecoveryIsolated ==
  /\ \A i \in 1..Len(crawlLog) :
       crawlLog[i].refresh = "failed" =>
         (crawlLog[i].got = << >> /\ ~crawlLog[i].raised /\ ~crawlLog[i].derived)
  /\ (sessLog.refresh = "failed" /\ pc # "sr_refresh") => (pc = "sr_ret" /\ ret = << >>)
  /\ all_reviews = LoggedReviews(Len(crawlLog))
  /\ \A k \in 1..Len(all_reviews) :
       all_reviews[k].elem.asin = Asin(all_reviews[k].product_url)
  /\ (pc = "done" /\ products # << >>) =>
       (Len(crawlLog) = Len(products) /\ Len(result.reviews) = Len(all_reviews))

\* C8: a finished crawl of three products whose second product failed its session
\* recovery while the first and the third yielded reviews
C8_Witness ==
  /\ pc = "done"
  /\ Len(products) = 3
  /\ Len(crawlLog) = 3
  /\ crawlLog[2].check = "expired" /\ crawlLog[2].refresh = "failed"
  /\ Len(crawlLog[1].got) > 0
  /\ Len(crawlLog[3].got) > 0
  /\ Len(result.reviews) = Len(crawlLog[1].got) + Len(crawlLog[3].got)

\* C9 (SpecScrape): the address variants are navigated to in their declared order,
\* one after the other; a variant that lands on a reviews address is accepted and
\* nothing is navigated to after it; a variant that lands on sign-in gets one
\* session recovery and, if that succeeds, one more navigation, never more.
C9_VariantOrder ==
  /\ navsThis <= 2 /\ recsThis <= 1
  /\ pc = "sr_try" =>
       /\ vidx \in 1..Len(ReviewUrls(asin))
       /\ lastNav = vidx - 1
       /\ navsThis = 0 /\ recsThis = 0 /\ ~success
  /\ pc = "sr_recover" =>
       /\ lastNav = vidx /\ lastLanding = "signin"
       /\ navsThis = 1 /\ recsThis = 0 /\ ~success
  /\ pc = "sr_retry" =>
       /\ lastNav = vidx
       /\ navsThis = 1 /\ recsThis = 1 /\ ~success
  /\ (pc = "sr_urls_done" /\ success) =>
       /\ lastNav = vidx /\ lastLanding = "reviews"
       /\ navsThis = recsThis + 1
  /\ (pc = "sr_urls_done" /\ ~success) =>
       /\ vidx = Len(ReviewUrls(asin)) + 1
       /\ lastNav = Len(ReviewUrls(asin))
  /\ success => pc \notin { "sr_try", "sr_recover", "sr_retry" }

\* C9: the first variant failed, the second landed on sign-in, the session was
\* recovered once and the second navigation to that variant was accepted
C9_Witness ==
  /\ pc = "sr_urls_done"
  /\ success
  /\ vidx = 2 /\ lastNav = 2
  /\ navsThis = 2 /\ recsThis = 1

\* C10 (SpecScrape): a rating whose filter could not be applied contributes no
\* review to what scrape_reviews returns.
C10_FailedFilterYieldsNothing ==
  \A i \in 1..Len(walkLog) :
    (walkLog[i].star # 0 /\ ~walkLog[i].applied) => walkLog[i].n = 0


\* C11: a crawl whose search yields no product returns an empty product list, an
\* empty review list and a summary whose two totals are zero, and has written the
\* JSON and the CSV file
C11_EmptyCrawlReported ==
  (pc = "done" /\ products = << >>) =>
     /\ result.products = << >> /\ result.reviews = << >>
     /\ { "total_products", "total_reviews" } \subseteq DOMAIN result.summary
     /\ result.summary.total_products = 0 /\ result.summary.total_reviews = 0
     /\ out_files = { "json", "csv" }

\* C12: whenever crawl_amazon has returned, its result holds a summary with the total
\* of the products, the total of the reviews and the distribution over the ratings
C12_SummaryAlways ==
  pc = "done" =>
     { "total_products", "total_reviews", "star_distribution" } \subseteq DOMAIN result.summary

\* C13: when the crawl found one product and scrape_reviews reached its reviews and
\* returned the 5 reviews of the only page, the result has one product record, with
\* the position 1 as its product_id, and 5 review records, each with the title and
\* the address of that product, and the summary counts 5 reviews
C13_ScenarioB ==
  (/\ pc = "done" /\ star_filter = << >> /\ Len(products) = 1 /\ Len(crawlLog) = 1
   /\ crawlLog[1].reached /\ Len(crawlLog[1].got) = 5)
  => /\ Len(result.products) = 1
     /\ result.products[1].product_id = 1
     /\ Len(result.reviews) = 5
     /\ \A k \in 1..5 :
          /\ result.reviews[k].product_title = products[1].title
          /\ result.reviews[k].product_url = products[1].url
     /\ result.summary.total_reviews = 5

C13_Witness ==
  /\ pc = "done" /\ star_filter = << >> /\ Len(products) = 1 /\ Len(crawlLog) = 1
  /\ crawlLog[1].reached /\ Len(crawlLog[1].got) = 5
  /\ crawlLog[1].check = "ok"
  /\ \A k \in 1..5 : crawlLog[1].got[k].elem = [asin |-> "B01", listing |-> 0, page |-> 1,
                                                  pos |-> k]
  /\ Len(result.reviews) = 5 /\ result.summary.total_reviews = 5

\* C14: with the ratings 4 and 5 asked for and one product, when both filters were
\* applied and the listing of rating 4 gave 3 reviews and the one of rating 5 gave 2,
\* the result has 5 reviews and organized_data files 3 of them under "4" and 2
\* under "5"
C14_ScenarioC ==
  (/\ pc = "done" /\ star_filter = << 4, 5 >> /\ Len(products) = 1 /\ Len(crawlLog) = 1
   /\ Len(crawlLog[1].got) = 5
   /\ \A k \in 1..3 : crawlLog[1].got[k].elem.listing = 4
   /\ \A k \in 4..5 : crawlLog[1].got[k].elem.listing = 5)
  => /\ Len(result.reviews) = 5
     /\ DOMAIN organized_data[1].reviews = { << "4" >>, << "5" >> }
     /\ Len(organized_data[1].reviews[<< "4" >>]) = 3
     /\ Len(organized_data[1].reviews[<< "5" >>]) = 2

C14_Witness ==
  /\ pc = "done" /\ star_filter = << 4, 5 >> /\ Len(products) = 1 /\ Len(crawlLog) = 1
  /\ Len(crawlLog[1].got) = 5
  /\ \A k \in 1..3 : crawlLog[1].got[k].elem.listing = 4
  /\ \A k \in 4..5 : crawlLog[1].got[k].elem.listing = 5
  /\ Len(organized_data[1].reviews[<< "4" >>]) = 3
  /\ Len(organized_data[1].reviews[<< "5" >>]) = 2

\* the product address a sponsored wrapper carries, percent-decoded: the address
\* the extractor is to return for it
C15_Target(href) ==
  IF href = SspaRelative THEN << "", "Some-Mouse", "dp", "B02" >>
  ELSE IF href = SspaAbsolute THEN << "https://www.amazon.com", "dp", "B04" >>
  ELSE NoAttr

\* whether an anchor gives _extract_product_url nothing to return
C15_NoLink(href) ==
  href \in { NoAttr, AMAZON_BASE_URL \o << "s?k=mouse" >>, SspaNoTarget, SspaSearch }

C16_IsAbsolute(url) == url # << >> /\ url[1] = "https://www.amazon.com"

\* C16: the url _extract_product_url returns is "N/A" or an absolute address
C16_UrlAbsoluteOrSentinel ==
  (ex_state = "returned" /\ ex_field = "url") => (ex_val = NAUrl \/ C16_IsAbsolute(ex_val))

\* C17: in organized_data every review is under the product it was scraped from:
\* the title and the address written into the review are those of that product
C17_GroupedUnderOwnProduct ==
  pc = "done" =>
    \A i \in 1..Len(organized_data) :
      \A key \in DOMAIN organized_data[i].reviews :
        \A k \in 1..Len(organized_data[i].reviews[key]) :
          /\ organized_data[i].reviews[key][k].product_title
               = organized_data[i].product_data.title
          /\ organized_data[i].reviews[key][k].product_url
               = organized_data[i].product_data.url

\* C18: in organized_data every key of the reviews of a product is "1", "2", "3",
\* "4", "5" or "unknown"
C18_StarKeysInRange ==
  pc = "done" =>
    \A i \in 1..Len(organized_data) :
      DOMAIN organized_data[i].reviews
        \subseteq { << "1" >>, << "2" >>, << "3" >>, << "4" >>, << "5" >>, Unknown }

\* how many reviews the walks before walk i of the running scrape_reviews returned
RECURSIVE C19_Before(_)
C19_Before(i) == IF i <= 1 THEN 0 ELSE C19_Before(i - 1) + walkLog[i - 1].n

\* whether element a comes before element b in a listing: on an earlier page, or on
\* the same page at an earlier position
C19_Earlier(a, b) == a.page < b.page \/ (a.page = b.page /\ a.pos < b.pos)

C20_ReviewsCarryRank ==
  pc = "done" =>
    \A k \in 1..Len(result.reviews) :
      /\ { "product_title", "product_url" } \subseteq DOMAIN result.reviews[k]
      /\ { "product_rank", "rank", "product_id" } \cap DOMAIN result.reviews[k] # {}

\* whether an address has the segment dp between two slashes
C21_HasMarker(url) == \E i \in 1..Len(url) : 1 < i /\ i < Len(url) /\ url[i] = "dp"

\* C21: scrape_reviews returns no review for a product whose address lacks /dp/,
\* derives no reviews address for it and navigates to none, while a product whose
\* address has it and whose session is good gets its reviews address; and the crawl
\* goes through every product
C21_NoMarkerSkipped ==
  /\ \A i \in 1..Len(crawlLog) :
       crawlLog[i].status = "scraped" =>
         /\ ~C21_HasMarker(products[i].url) =>
              (crawlLog[i].got = << >> /\ ~crawlLog[i].derived /\ ~crawlLog[i].reached)
         /\ (~crawlLog[i].raised /\ "ok" \in { crawlLog[i].check, crawlLog[i].refresh }) =>
              (crawlLog[i].derived <=> C21_HasMarker(products[i].url))
  /\ (product_url # << >> /\ ~C21_HasMarker(product_url)) =>
       (asin = None /\ lastNav = 0 /\ ~success /\ pc \in { "sr_check", "sr_refresh",
                                                          "sr_derive", "sr_ret" })
  /\ (pc = "sr_ret" /\ ~C21_HasMarker(product_url)) => ret = << >>
  /\ (pc = "done" /\ products # << >>) => Len(crawlLog) = Len(products)

\* C21: a finished crawl of three products whose second, with a /gp/product/
\* address and a good session, gave nothing while the third gave reviews
C21_Witness ==
  /\ pc = "done" /\ Len(products) = 3 /\ Len(crawlLog) = 3
  /\ products[2] = ProductGp
  /\ crawlLog[2].status = "scraped" /\ crawlLog[2].check = "ok" /\ ~crawlLog[2].raised
  /\ crawlLog[2].got = << >> /\ ~crawlLog[2].derived
  /\ Len(crawlLog[3].got) > 0

\* C22: while no reviews-address variant has landed on a reviews page, no star filter
\* is applied and the pagination walker does not run; scrape_reviews then returns no
\* review, and the crawl moves on to the next product
C22_UnreachableSkipsWalk ==
  /\ (product_url # << >> /\ ~success) =>
       /\ pc \notin { "sr_filter", "wk_scrape", "wk_advance", "wk_return" }
       /\ walkLog = << >> /\ curFilter = None
       /\ pagesScraped = 0 /\ lookups = 0 /\ clicks = 0
       /\ walk_reviews = << >> /\ reviews = << >>
  /\ (pc = "sr_ret" /\ ~success) => ret = << >>
  /\ \A i \in 1..Len(crawlLog) :
       (crawlLog[i].status = "scraped" /\ ~crawlLog[i].reached) => crawlLog[i].got = << >>
  /\ (products # << >> /\ pc # "done") => Len(crawlLog) = pidx - 1

\* C22: a finished crawl whose first product had a reviews address derived, never
\* reached a reviews page, raised nothing and gave no review, and whose second
\* product gave reviews
C22_Witness ==
  /\ pc = "done" /\ Len(crawlLog) >= 2
  /\ crawlLog[1].status = "scraped" /\ crawlLog[1].derived
  /\ ~crawlLog[1].reached /\ ~crawlLog[1].raised /\ crawlLog[1].got = << >>
  /\ crawlLog[2].status = "scraped" /\ crawlLog[2].reached /\ Len(crawlLog[2].got) > 0

C24_Quits == { i \in 1..Len(crawlLog) : crawlLog[i].status = "quit" }

\* C24 (SpecLife): when the lifetime of the crawler has ended and a driver was
\* created in it, driver.quit was called exactly once, as the last thing done with
\* the driver
C24_ReleasedOnEveryPath ==
  (pc = "lf_end" /\ driver # "none") =>
     (Cardinality(C24_Quits) = 1 /\ crawlLog[Len(crawlLog)].status = "quit")

C27_HasIndicator(src) ==
  \E t \in src :
    LowerTok(t) \in { "hello,", "your account", "account & lists", "orders", "prime" }

\* whether an address, in lower case, is free of "signin"
C27_OffSignin(url) == \A i \in 1..Len(url) : LowerTok(url[i]) # "signin"

\* C27 (SpecAuth): _is_logged_in is true exactly when the page holds a login indicator
\* and the address holds no "signin", and false whenever reading the driver fails; so
\* an operation that went through it returns true only on such a page and address,
\* and returns false on a page without indicator wherever the driver is
C27_BothConditions ==
  /\ \A src \in PageSources, url \in Addresses, read \in ReadOutcomes :
       IsLoggedInTry(read, src, url)
         <=> (read = "ok" /\ C27_HasIndicator(src) /\ C27_OffSignin(url))
  /\ (CalledIsLoggedIn /\ au_ret) => (C27_HasIndicator(drv_page) /\ C27_OffSignin(drv_url))
  /\ (CalledIsLoggedIn /\ ~C27_HasIndicator(drv_page)) => ~au_ret

\* C27: check_session_status ended on the home page, off any sign-in address, with a
\* page that holds no login indicator, and returned false
C27_Witness ==
  /\ au_op = "check_session_status" /\ CalledIsLoggedIn
  /\ drv_url = AMAZON_BASE_URL /\ drv_page = { "Sign in" }
  /\ ~au_ret

\* C28 (Spec): when the search gives no product, crawl_amazon returns in that very
\* step, with empty products and empty reviews; no scrape_reviews is called, so no
\* session is checked, no reviews address opened, no star filter applied and no page
\* walked, and nothing is written
C28_ZeroProductsReturn ==
  [][ (pc = "cr_search" /\ products' = << >>) =>
        /\ pc' = "done"
        /\ result'.products = << >> /\ result'.reviews = << >>
        /\ crawlLog' = << >> /\ all_reviews' = << >> /\ out_files' = {}
        /\ sessLog' = [check |-> "none", refresh |-> "none"]
        /\ lastNav' = 0 /\ curFilter' = None /\ walkLog' = << >>
        /\ pagesScraped' = 0 /\ lookups' = 0 /\ clicks' = 0
        /\ site_listing' = 0 /\ site_page' = 0
        /\ UNCHANGED << scrapeVars, walkVars, authVars >> ]_vars

\* C28: a crawl whose driver was set up and whose search gave no product has returned
C28_Witness ==
  /\ pc = "done" /\ driver = "open" /\ products = << >>
  /\ "saved_files" \notin DOMAIN result
  /\ result.products = << >> /\ result.reviews = << >>
  /\ crawlLog = << >>

\* C29 (SpecScrape): in the advancing step of a walk, once max_pages pages are scraped
\* the next control is neither looked up nor clicked and the walk returns; before
\* that it is looked up once, and when it is not clicked the walk stops on the page
\* it is on; in all, at most max_pages - 1 lookups and no more clicks than lookups;
\* the step keeps the records, and the return of the walk hands them on
C29_WalkerExhaustion ==
  [][ /\ pc = "wk_advance" =>
           /\ IF pagesScraped >= max_pages
              THEN /\ lookups' = lookups /\ clicks' = clicks /\ site_page' = site_page
                   /\ pc' = "wk_return"
              ELSE /\ lookups' = lookups + 1
                   /\ clicks' = clicks => (pc' = "wk_return" /\ site_page' = site_page)
           /\ lookups' <= max_pages - 1 /\ clicks' <= lookups'
           /\ walk_reviews' = walk_reviews
      /\ pc = "wk_return" =>
           /\ Len(reviews') >= Len(walk_reviews)
           /\ SubSeq(reviews', Len(reviews') - Len(walk_reviews) + 1, Len(reviews'))
                = walk_reviews
           /\ pc' = "sr_ret" =>
                SubSeq(ret', Len(ret') - Len(walk_reviews) + 1, Len(ret')) = walk_reviews
    ]_vars

\* C29: a walk of two pages at most found no enabled next control on the first page,
\* which held a review, and stopped there without a click
C29_Witness ==
  /\ pc = "wk_return" /\ max_pages = 2
  /\ pagesScraped = 1 /\ lookups = 1 /\ clicks = 0
  /\ Len(walk_reviews) = 1

\* C30 (SpecScrape): a page that is scraped without an exception, whether it gave
\* records or none, is followed by the advancing step, the records so far kept; and
\* the advancing step of a page before the last looks the next control up, whatever
\* the pages gave, and a click that works leads to the scrape of the next page
C30_EmptyPageGoesOn ==
  [][ /\ (pc = "wk_scrape" /\ ~raised') =>
           /\ pc' = "wk_advance"
           /\ pagesScraped' = pagesScraped + 1
           /\ Len(walk_reviews') >= Len(walk_reviews)
           /\ SubSeq(walk_reviews', 1, Len(walk_reviews)) = walk_reviews
      /\ (pc = "wk_advance" /\ pagesScraped < max_pages) =>
           /\ lookups' = lookups + 1
           /\ (clicks' = clicks + 1 /\ site_page' = site_page + 1) => pc' = "wk_scrape"
    ]_vars

\* C30: a walk of two pages whose first page held no review element and whose second
\* held one has ended with the record of the second page
C30_Witness ==
  /\ pc = "wk_return" /\ max_pages = 2
  /\ pagesScraped = 2 /\ clicks = 1 /\ lookups = 1
  /\ Len(walk_reviews) = 1
  /\ walk_reviews[1].elem.page = site_page
  /\ site_page >= 2

\* whether the call has got as far as the reviews addresses, or further
C31_PastGuard ==
  \/ asin # None \/ vidx > 0 \/ lastNav > 0 \/ navsThis > 0 \/ success
  \/ pc \in { "sr_derive", "sr_try", "sr_recover", "sr_retry", "sr_urls_done", "sr_filter",
              "wk_scrape", "wk_advance", "wk_return" }
  \/ pagesScraped > 0 \/ walkLog # << >>

\* C31 (SpecScrape): a call of scrape_reviews that has derived a reviews address,
\* navigated to one or walked a page has had its session checked before, with the
\* check or the recovery after it succeeding; a call whose check and recovery both
\* failed has returned nothing without any of these
C31_GuardBeforeReviews ==
  /\ C31_PastGuard =>
       /\ sessLog.check \in { "ok", "expired" }
       /\ sessLog.check = "ok" \/ sessLog.refresh = "ok"
  /\ (sessLog.check = "expired" /\ sessLog.refresh = "failed") =>
       (~C31_PastGuard /\ pc = "sr_ret" /\ ret = << >>)
  /\ sessLog.refresh # "none" => sessLog.check = "expired"

\* C31: a call whose session check failed and whose recovery succeeded has reached a
\* reviews page and scraped a page of it
C31_Witness ==
  /\ sessLog = [check |-> "expired", refresh |-> "ok"]
  /\ success /\ pagesScraped = 1 /\ Len(walk_reviews) = 1

\* C32 (SpecSearch): search_products returns min(top_count, containers found)
\* records, the k-th built from the k-th container, and extracts no container beyond
\* the first top_count
C32_TopCountInOrder ==
  pc = "ss_ret" =>
    /\ Len(products) = Min(top_count, Len(site.containers))
    /\ \A k \in 1..Len(products) : products[k] = site.containers[k].data
    /\ \A i \in 1..Len(crawlLog) : crawlLog[i] <= top_count

\* the same of the calls no exception ended, with every container of the slice
\* extracted once and in order; and the calls an exception ended return no record
C32_TopCountUnlessRaised ==
  pc = "ss_ret" =>
    /\ \A i \in 1..Len(crawlLog) : crawlLog[i] = i /\ i <= top_count
    /\ IF result.raised
       THEN products = << >>
       ELSE /\ Len(products) = Min(top_count, Len(site.containers))
            /\ Len(crawlLog) = Len(products)
            /\ \A k \in 1..Len(products) : products[k] = site.containers[k].data

\* whether the step is a call of manual_login_and_save_cookies on its own
C33_Called == au_op' = "manual_login_and_save_cookies"

\* whether the call went through _save_cookies
C33_Saved == \E i \in 1..Len(au_calls') : au_calls'[i] = "_save_cookies"

\* C33 as stated (SpecAuth): the cookie file is written with the cookies of the
\* session exactly when the re-check reports a login; otherwise false is returned and
\* the file is as it was
C33_WrittenIffLoggedIn ==
  [][ C33_Called =>
        /\ au_ret' => cookie_file' = ValidFile(jar')
        /\ ~au_ret' => cookie_file' = cookie_file ]_vars

\* C33 (SpecAuth): manual_login_and_save_cookies calls _save_cookies exactly when the
\* re-check reports a login, which is when it returns true; when the re-check fails
\* or a step raises it returns false and the file is as it was; a file that changed
\* holds the cookies of the session, or is what a write that failed half-way left
C33_SavesOnlyOnSuccess ==
  [][ C33_Called =>
        /\ C33_Saved <=> au_ret'
        /\ au_ret' => (C27_HasIndicator(drv_page') /\ C27_OffSignin(drv_url'))
        /\ ~au_ret' => cookie_file' = cookie_file
        /\ cookie_file' # cookie_file =>
             (au_ret' /\ cookie_file' \in { ValidFile(jar'), CorruptFile }) ]_vars

\* C33: a manual login whose re-check failed on a page without login indicator has
\* returned false beside a cookie file that holds a cookie
C33_Witness ==
  /\ au_op = "manual_login_and_save_cookies" /\ CalledIsLoggedIn
  /\ ~au_ret /\ ~C27_HasIndicator(drv_page)
  /\ cookie_file = ValidFile({ "session-id" })
  /\ jar = { "x-main" }

C36_AccumulatedNotLost ==
  pc = "sr_ret" =>
    /\ Len(ret) >= Len(reviews)
    /\ SubSeq(ret, 1, Len(reviews)) = reviews

\* C36, the walk alone: when the click on the next control raises, the walk returns
\* with the reviews of the pages scraped
C36_ClickFailureKeepsPages ==
  [][(pc = "wk_advance" /\ pc' = "wk_return" /\ clicks' = clicks + 1) =>
       (walk_reviews' = walk_reviews /\ ~raised')]_vars

\* C37: every address _extract_product_url accepts as a product path is one from
\* which scrape_reviews derives a reviews address: a listed product with such an
\* address, scraped with a good session and without exception, had its reviews
\* address derived
C37_AcceptedUrlsDerivable ==
  \A i \in 1..Len(crawlLog) :
    ( /\ crawlLog[i].status = "scraped"
      /\ products[i].url # << NA >>
      /\ IsProductPath(products[i].url)
      /\ ~crawlLog[i].raised
      /\ "ok" \in { crawlLog[i].check, crawlLog[i].refresh } ) =>
    crawlLog[i].derived

\* the step of the product loop that meets a product whose address is the sentinel
C38_AtSentinel ==
  pc = "cr_loop" /\ pidx <= Len(products) /\ products[pidx].url = << NA >>

\* what holds in every state for the products whose address is the sentinel
C38_Listed ==
  /\ \A i \in 1..Len(crawlLog) :
       products[i].url = << NA >> =>
         (crawlLog[i].status = "skipped" /\ crawlLog[i].got = << >>)
  /\ \A k \in 1..Len(all_reviews) : all_reviews[k].product_url # << NA >>
  /\ (pc = "done" /\ products # << >>) =>
       /\ Len(result.products) = Len(products)
       /\ Len(organized_data) = Len(products)
       /\ \A i \in 1..Len(products) :
            products[i].url = << NA >> =>
              /\ result.products[i].url = << NA >>
              /\ result.products[i].product_id = i
              /\ organized_data[i].product_data = result.products[i]
       /\ \A k \in 1..Len(result.reviews) : result.reviews[k].product_url # << NA >>

\* C38: a product whose address is the sentinel "N/A" is skipped by crawl_amazon: the
\* step that meets it moves to the next product without a session check, a
\* navigation or a review added; no returned review is its own; and it is in the
\* returned products and in the organized result at its position in the listing
C38_SentinelSkipped ==
  /\ []C38_Listed
  /\ [][C38_AtSentinel =>
          /\ pidx' = pidx + 1 /\ pc' = "cr_loop"
          /\ UNCHANGED << scrapeVars, walkVars, authVars >>
          /\ UNCHANGED << driver, products, all_reviews, site >>]_vars

\* C38: a finished crawl whose first product had no address and was skipped, and
\* whose second gave a review
C38_Witness ==
  /\ pc = "done" /\ Len(products) = 2
  /\ products[1].url = << NA >> /\ crawlLog[1].status = "skipped"
  /\ organized_data[1].product_data.url = << NA >>
  /\ Len(result.reviews) > 0

\* the bounds of the loops of one product and of the crawl: four address variants,
\* each navigated to at most twice and recovered at most once, one walk for each
\* rating asked for, max_pages pages for each walk, one turn for each product
C39_Bounded ==
  /\ vidx \in 0..5 /\ lastNav \in 0..4
  /\ navsThis \in 0..2 /\ recsThis \in 0..1
  /\ pc \in { "sr_try", "sr_recover", "sr_retry" } => vidx \in 1..4
  /\ Len(walkLog) <= (IF HasStarFilter THEN Len(star_filter) ELSE 1)
  /\ sidx <= Len(star_filter)
  /\ page <= max_pages /\ pagesScraped <= max_pages
  /\ clicks <= max_pages /\ lookups <= max_pages
  /\ pidx <= Len(products) + 1 /\ Len(crawlLog) <= Len(products)
  /\ Len(products) <= top_count

\* the steps one walk has left at most: two for each page to come, and the return
C39_WalkLeft ==
  CASE pc = "wk_scrape"  -> 2 * (max_pages - page) + 1
    [] pc = "wk_advance" -> 2 * (max_pages - page)
    [] pc = "wk_return"  -> 0
    [] pc = "sr_filter"  -> 2 * max_pages + 2
    [] OTHER -> 0

\* the steps scrape_reviews has left at most for the product in hand
C39_ScrapeLeft ==
  LET perWalk == 2 * max_pages + 3
      walks == IF HasStarFilter THEN Len(star_filter) ELSE 1
      walk == IF HasStarFilter THEN sidx ELSE 1
      urls_done == perWalk * walks + 1
  IN  CASE pc = "sr_ret" -> 0
        [] pc \in { "sr_filter", "wk_scrape", "wk_advance", "wk_return" } ->
             1 + perWalk * (walks - walk) + C39_WalkLeft
        [] pc = "sr_urls_done" -> urls_done
        [] pc = "sr_retry"   -> urls_done + 1 + 3 * (4 - vidx)
        [] pc = "sr_recover" -> urls_done + 2 + 3 * (4 - vidx)
        [] pc = "sr_try"     -> urls_done + 3 + 3 * (4 - vidx)
        [] pc = "sr_derive"  -> urls_done + 13
        [] pc = "sr_refresh" -> urls_done + 14
        [] pc = "sr_check"   -> urls_done + 15
        [] pc = "cr_loop"    -> urls_done + 16
        [] OTHER -> 0

\* the steps crawl_amazon has left at most: a number fixed by top_count, star_filter
\* and max_pages alone, whatever the site answers
C39_StepsLeft ==
  LET perProduct ==
        (2 * max_pages + 3) * (IF HasStarFilter THEN Len(star_filter) ELSE 1) + 18
  IN  CASE pc = "done" -> 0
        [] pc = "cr_finish" -> 1
        [] pc = "cr_search" -> perProduct * (top_count + 1) + 2
        [] pc \in { "cr_loop", "sr_check", "sr_refresh", "sr_derive", "sr_try", "sr_recover",
                    "sr_retry", "sr_urls_done", "sr_filter", "wk_scrape", "wk_advance",
                    "wk_return", "sr_ret" } ->
             perProduct * (top_count + 1 - pidx) + C39_ScrapeLeft + 2
        [] OTHER -> -1

\* C39: crawl_amazon terminates whatever the site does: every step of the crawl
\* lowers a count of the steps left that is never negative and is fixed at the call
\* by top_count, star_filter and max_pages, so no crawl takes more steps than that;
\* and the loops stay within their bounds all along
C39_Terminates ==
  /\ [][C39_StepsLeft' < C39_StepsLeft]_vars
  /\ [](C39_StepsLeft >= 0)
  /\ []C39_Bounded

\* C39: a crawl in which the fourth variant of a product was navigated to a second
\* time after a recovery
C39_Witness ==
  /\ pc = "sr_urls_done" /\ vidx = 4 /\ navsThis = 2 /\ recsThis = 1
  /\ sessLog.check = "expired" /\ sessLog.refresh = "ok"
  /\ Len(products) > 1
  /\ C39_StepsLeft > 0
====
